---- MODULE Spec2Model ----
(***************************************************************************)
(* modem-monitor: the connection supervisor of src/main.c (kept in         *)
(* src/src/netlink.c from line 763 on), together with the DMS and WDS      *)
(* helpers it drives.                                                      *)
(*                                                                         *)
(* The main thread is modelled one collaborator call per action: pc names  *)
(* the call that is about to be made.  The SIGINT handler and the WDS      *)
(* indication callback run asynchronously between any two such calls.      *)
(* Results of the vendor QMI library, libnl, sd-bus and the wg subprocess  *)
(* are inputs, drawn from small sets.                                      *)
(***************************************************************************)
EXTENDS Integers, Sequences, FiniteSets, TLC

(***************************************************************************)
(* Bounds                                                                  *)
(***************************************************************************)
\* Phase B iterations the model lets the outer loop begin.
MaxIter == 2

\* Passes of the prefix-length loop of mm_wds_get_runtime_settings that are
\* followed once prefix_length has gone below zero.
MaxSpin == 2

\* Calls of the netlink helpers that are followed when they are called on
\* their own.
MaxCalls == 3

(***************************************************************************)
(* Program constants                                                       *)
(***************************************************************************)
eQCWWAN_ERR_NONE == 0
eQCWWAN_ERR_GENERAL == 1
eQCWWAN_ERR_QMI_NO_EFFECT == 1026

MM_DMS_OPERATION_MODE_ONLINE == 0
MM_DMS_OPERATION_MODE_LOW_POWER == 1
MM_DMS_OPERATION_MODE_INVALID == 255

\* <stdlib.h>
EXIT_SUCCESS == 0
EXIT_FAILURE == 1

\* #define MAX_NETLINK_ADDRS 126U
MAX_NETLINK_ADDRS == 126

\* enum mm_wds_autoconnect_setting, enum mm_wds_autoconnect_roam_setting
MM_WDS_AUTOCONNECT_SETTING_DISABLED == 0
MM_WDS_AUTOCONNECT_SETTING_ENABLED == 1
MM_WDS_AUTOCONNECT_SETTING_PAUSED == 2
MM_WDS_AUTOCONNECT_SETTING_INVALID == 255
MM_WDS_AUTOCONNECT_ROAM_SETTING_ALWAYS == 0
MM_WDS_AUTOCONNECT_ROAM_SETTING_HOME_ONLY == 1
MM_WDS_AUTOCONNECT_ROAM_SETTING_INVALID == 255

(***************************************************************************)
(* Results the collaborators can hand back                                 *)
(***************************************************************************)
\* QmiService_SendSyncRequest / CtlService_* : success or an error code.
QmiResults == {eQCWWAN_ERR_NONE, eQCWWAN_ERR_GENERAL}
\* StopDataSession may in addition answer "no effect".
StopResults == QmiResults \cup {eQCWWAN_ERR_QMI_NO_EFFECT}
\* libnl calls: 0 or a negative error.
NlResults == {0, -1}
\* mm_sdbus_manage_service: 0 or -1.
BusResults == {0, -1}
\* mm_exec_wireguard_setconf: exit code of wg, 1 (fork failed), -1 (waitpid).
SetconfResults == {0, 1, -1}

\* The service handles the supervisor attaches to the control transport.
Handles == {"ac", "swi", "dms", "v6", "v4"}

VARIABLES
    pc,              \* the call the main thread makes next
    exit_requested,  \* static bool exit_requested
    status,          \* initialize(): status
    status6,         \* run_up_ipv6(): status
    status4,         \* run_up_ipv4(): status
    mode,            \* initialize(): mode (resulting operation mode)
    dms,             \* struct mm_dms_service: which services are attached, model_id cached
    dmsq,            \* the last mm_dms_set_power_sync call: first GetPower answer, SetPower issued
    ac_wds,          \* mm_configure_autoconnect_and_roaming(): its WDS handle is attached
    s4,              \* run_up_ipv4(): session_v4
    s6,              \* run_up_ipv6(): session_v6
    iter,            \* Phase B iterations begun
    trace,           \* collaborator calls made since the current iteration began
    fails,           \* the pc of every call that failed since the current iteration began
    attachOK,        \* per handle: successful attaches so far
    detachTry,       \* per handle: detach attempts so far
    lastInd,         \* the last indication the callback processed, and what it did
    peerEnd4,        \* a peer-ended disconnect reached the v4 session inside the monitor
    lateTicks,       \* monitor sleeps begun while a wake-up flag was already set
    checked,         \* the value last assigned to a local named check
    mpc,             \* main(): the call it makes next
    main_status,     \* main(): status
    pwr,             \* a call of mm_dms_set_power_sync made on its own: its inputs
    wdsq,            \* a WDS helper of src/wds.c called on its own: inputs, locals, result
    nlk              \* struct mm_netlink and the kernel behind it, for the helpers of
                     \* src/netlink.c called on their own

vars == <<pc, exit_requested, status, status6, status4, mode, dms, dmsq, ac_wds,
          s4, s6, iter, trace, fails, attachOK, detachTry, lastInd, peerEnd4,
          lateTicks, checked, mpc, main_status, pwr, wdsq, nlk>>

vLocals == <<status6, status4, mode>>
vDms == <<dms, dmsq>>
vSess == <<ac_wds, s4, s6>>
vCnt == <<attachOK, detachTry>>
vInd == <<lastInd, peerEnd4, lateTicks>>
vFn == <<pwr, wdsq, nlk>>
\* Everything of the supervisor, which a helper called on its own leaves alone.
vSup == <<pc, exit_requested, status, status6, status4, mode, dms, dmsq, ac_wds, s4, s6,
          iter, trace, fails, attachOK, detachTry, lastInd, peerEnd4, lateTicks, checked,
          mpc, main_status>>
vOut == <<mpc, main_status, vFn>>

(***************************************************************************)
(* Helpers                                                                 *)
(***************************************************************************)
\* memset(&session, 0, sizeof(session))
ZeroSession == [attached |-> FALSE, session_id |-> 0, teardown_requested |-> FALSE]

\* memset(&dms, 0, sizeof(dms))
ZeroDms == [swi |-> FALSE, dms |-> FALSE, model_id |-> FALSE]

NoQuery == [asked |-> FALSE, current_mode |-> MM_DMS_OPERATION_MODE_INVALID,
            hardware_controlled_mode |-> FALSE, issued |-> FALSE]

NoInd == [ctx |-> "none"]

\* No call of mm_dms_set_power_sync is made on its own.
NoPowerCall == [called |-> FALSE]

\* No helper is being called on its own.
NoCall == [fn |-> "none"]

Bump(f, hs) == [h \in Handles |-> IF h \in hs THEN f[h] + 1 ELSE f[h]]

RECURSIVE Project(_, _)
\* The subsequence of t made of the entries that are in S.
Project(t, S) ==
    IF t = <<>> THEN <<>>
    ELSE IF Head(t) \in S THEN <<Head(t)>> \o Project(Tail(t), S)
    ELSE Project(Tail(t), S)

RECURSIVE After(_, _)
\* The part of t after the first occurrence of x (empty when x is absent).
After(t, x) ==
    IF t = <<>> THEN <<>>
    ELSE IF Head(t) = x THEN Tail(t)
    ELSE After(Tail(t), x)

Occurs(t, x) == \E i \in 1..Len(t) : t[i] = x

Init ==
    /\ pc = "not_called"
    /\ exit_requested = FALSE
    /\ status = 0
    /\ status6 = 0
    /\ status4 = 0
    /\ mode = MM_DMS_OPERATION_MODE_INVALID
    /\ dms = ZeroDms
    /\ dmsq = NoQuery
    /\ ac_wds = FALSE
    /\ s4 = ZeroSession
    /\ s6 = ZeroSession
    /\ iter = 0
    /\ trace = <<>>
    /\ fails = {}
    /\ attachOK = [h \in Handles |-> 0]
    /\ detachTry = [h \in Handles |-> 0]
    /\ lastInd = NoInd
    /\ peerEnd4 = FALSE
    /\ lateTicks = 0
    /\ checked = 0
    /\ mpc = "M_sigaction"
    /\ main_status = EXIT_FAILURE
    /\ pwr = NoPowerCall
    /\ wdsq = NoCall
    /\ nlk = NoCall

(***************************************************************************)
(* handle_signal: SIGINT sets exit_requested.  The model follows the       *)
(* process until initialize() returns.                                     *)
(***************************************************************************)
handle_signal ==
    /\ mpc \notin {"M_sigaction", "exited"}
    /\ pc # "returned"
    /\ ~exit_requested
    /\ exit_requested' = TRUE
    /\ UNCHANGED <<vOut, checked, pc, status, vLocals, vDms, vSess, iter, trace, fails, vCnt, vInd>>

(***************************************************************************)
(* initialize(): Phase A, the one-shot prelude                             *)
(***************************************************************************)
\* if ((status = mm_netlink_ensure_wg0_interface_state(mm_nl, false))) return status;
prelude_wg0_down ==
    /\ pc = "A_wg0_down"
    /\ \E r \in NlResults :
         /\ status' = r
         /\ trace' = Append(trace, "wg0_down")
         /\ IF r # 0 THEN pc' = "returned" /\ fails' = fails \cup {pc}
                     ELSE pc' = "A_ac_attach" /\ fails' = fails
    /\ UNCHANGED <<vOut, checked, exit_requested, vLocals, vDms, vSess, iter, vCnt, vInd>>

\* mm_configure_autoconnect_and_roaming: mm_wds_initialize(&wds, ctl, NULL)
autoconnect_attach ==
    /\ pc = "A_ac_attach"
    /\ \E r \in QmiResults :
         /\ status' = r
         /\ trace' = Append(trace, "ac_attach")
         /\ IF r # eQCWWAN_ERR_NONE
              THEN /\ pc' = "returned"
                   /\ fails' = fails \cup {pc}
                   /\ UNCHANGED <<vOut, checked, ac_wds, attachOK>>
              ELSE /\ pc' = "A_ac_set"
                   /\ fails' = fails
                   /\ ac_wds' = TRUE
                   /\ attachOK' = Bump(attachOK, {"ac"})
    /\ UNCHANGED <<vOut, checked, exit_requested, vLocals, vDms, s4, s6, iter, detachTry, vInd>>

\* mm_configure_autoconnect_and_roaming: mm_wds_set_autoconnect_settings
autoconnect_set ==
    /\ pc = "A_ac_set"
    /\ \E r \in QmiResults :
         /\ status' = r
         /\ trace' = Append(trace, "ac_set")
         /\ fails' = IF r # eQCWWAN_ERR_NONE THEN fails \cup {pc} ELSE fails
         /\ pc' = "A_ac_detach"
    /\ UNCHANGED <<vOut, checked, exit_requested, vLocals, vDms, vSess, iter, vCnt, vInd>>

\* mm_configure_autoconnect_and_roaming: mm_wds_shutdown, then
\* initialize(): if ((status = mm_configure_autoconnect_and_roaming(ctl))) return status;
autoconnect_detach ==
    /\ pc = "A_ac_detach"
    /\ \E check \in QmiResults :
         LET st == IF check # eQCWWAN_ERR_NONE THEN check ELSE status IN
         /\ checked' = check
         /\ status' = st
         /\ trace' = Append(trace, "ac_detach")
         /\ fails' = IF check # eQCWWAN_ERR_NONE THEN fails \cup {pc} ELSE fails
         /\ ac_wds' = (check # eQCWWAN_ERR_NONE)
         /\ detachTry' = Bump(detachTry, {"ac"})
         /\ pc' = IF st # 0 THEN "returned" ELSE "B_while"
    /\ UNCHANGED <<vOut, exit_requested, vLocals, vDms, s4, s6, iter, attachOK, vInd>>

(***************************************************************************)
(* initialize(): Phase B, the outer loop                                   *)
(***************************************************************************)
\* Variant: the loop never looks at exit_requested.
LoopCondition_always(e) == TRUE

\* while (!exit_requested)
LoopCondition(e) == ~e

\* The loop test.  When it passes an iteration begins and the per-iteration
\* history is started afresh; when it fails initialize() returns status.
outer_loop_test ==
    /\ pc = "B_while"
    /\ IF LoopCondition(exit_requested)
         THEN /\ iter < MaxIter
              /\ pc' = "B_reload"
              /\ iter' = iter + 1
              /\ trace' = <<>>
              /\ fails' = {}
              /\ dmsq' = NoQuery
              /\ peerEnd4' = FALSE
              /\ lateTicks' = 0
         ELSE /\ pc' = "returned"
              /\ UNCHANGED <<vOut, checked, iter, trace, fails, dmsq, peerEnd4, lateTicks>>
    /\ UNCHANGED <<vOut, checked, exit_requested, status, vLocals, dms, vSess, vCnt, lastInd>>

\* Variant: a failed call is recorded in status and the loop body goes on.
BreakStep_goes_on(here, op, Results, next) ==
    /\ pc = here
    /\ \E r \in Results :
         /\ status' = r
         /\ trace' = Append(trace, op)
         /\ pc' = next
         /\ fails' = IF r # 0 THEN fails \cup {here} ELSE fails
    /\ UNCHANGED <<vOut, checked, exit_requested, vLocals, vDms, vSess, iter, vCnt, vInd>>

\* A call of the form  if ((status = f(...))) break;
BreakStep(here, op, Results, next) ==
    /\ pc = here
    /\ \E r \in Results :
         /\ status' = r
         /\ trace' = Append(trace, op)
         /\ IF r # 0 THEN pc' = "returned" /\ fails' = fails \cup {here}
                     ELSE pc' = next /\ fails' = fails
    /\ UNCHANGED <<vOut, checked, exit_requested, vLocals, vDms, vSess, iter, vCnt, vInd>>

\* A cleanup call of the form  if ((check = f(...))) { status = check; break; }
CheckStep(here, op, Results, next) ==
    /\ pc = here
    /\ \E check \in Results :
         /\ checked' = check
         /\ trace' = Append(trace, op)
         /\ IF check # 0
              THEN status' = check /\ pc' = "returned" /\ fails' = fails \cup {here}
              ELSE status' = status /\ pc' = next /\ fails' = fails
    /\ UNCHANGED <<vOut, exit_requested, vLocals, vDms, vSess, iter, vCnt, vInd>>

reload_link_cache == BreakStep("B_reload", "reload_link_cache", NlResults, "B_stop_chrony")

stop_chrony_before == BreakStep("B_stop_chrony", "stop_chrony", BusResults, "B_stop_unbound")

stop_unbound_before == BreakStep("B_stop_unbound", "stop_unbound", BusResults, "B_wwan_up")

wwan_up == BreakStep("B_wwan_up", "wwan_up", NlResults, "B_flush")

addr_flush == BreakStep("B_flush", "addr_flush", NlResults, "B_dms_init")

(***************************************************************************)
(* DMS helpers (src/src/dms.c)                                             *)
(***************************************************************************)
\* What the modem can answer to GetPower: a transport error, a QMI error
\* result, or a response in which each of the two TLVs may be missing.
PowerResponses ==
    { [st |-> eQCWWAN_ERR_GENERAL, Tlvresult |-> 0, mode_present |-> FALSE,
       OperationMode |-> MM_DMS_OPERATION_MODE_ONLINE, hw_present |-> FALSE,
       HardwareControlledMode |-> FALSE],
      [st |-> eQCWWAN_ERR_NONE, Tlvresult |-> eQCWWAN_ERR_GENERAL, mode_present |-> FALSE,
       OperationMode |-> MM_DMS_OPERATION_MODE_ONLINE, hw_present |-> FALSE,
       HardwareControlledMode |-> FALSE] }
    \cup
    { [st |-> eQCWWAN_ERR_NONE, Tlvresult |-> 0, mode_present |-> mp, OperationMode |-> m,
       hw_present |-> hp, HardwareControlledMode |-> h] :
        mp \in BOOLEAN, m \in {MM_DMS_OPERATION_MODE_ONLINE, MM_DMS_OPERATION_MODE_LOW_POWER},
        hp \in BOOLEAN, h \in BOOLEAN }

\* What the modem can answer to SetPower.
SetPowerResponses ==
    { [st |-> a, Tlvresult |-> b] : a \in QmiResults, b \in QmiResults }

mm_dms_get_power_sync(resp) ==
    IF resp.st # eQCWWAN_ERR_NONE
      THEN [status |-> resp.st, mode |-> MM_DMS_OPERATION_MODE_INVALID,
            hardware_controlled_mode |-> FALSE]
    ELSE IF resp.Tlvresult # eQCWWAN_ERR_NONE
      THEN [status |-> resp.Tlvresult, mode |-> MM_DMS_OPERATION_MODE_INVALID,
            hardware_controlled_mode |-> FALSE]
    ELSE [status |-> eQCWWAN_ERR_NONE,
          mode |-> IF resp.mode_present THEN resp.OperationMode
                   ELSE MM_DMS_OPERATION_MODE_INVALID,
          hardware_controlled_mode |-> resp.hw_present /\ resp.HardwareControlledMode]

\* Variant: the hardware-controlled lock is not looked at.
SkipSetPower_ignores_lock(current_mode, requested_mode, hardware_controlled_mode) ==
    current_mode = requested_mode

\* if (current_mode == requested_mode || hardware_controlled_mode): no write.
SkipSetPower(current_mode, requested_mode, hardware_controlled_mode) ==
    current_mode = requested_mode \/ hardware_controlled_mode

\* Variant: once SetPower was accepted the requested mode is taken to be in
\* force; the read-back is not made.
mm_dms_set_power_sync_no_readback(requested_mode, get1, set, get2) ==
    LET g1 == mm_dms_get_power_sync(get1)
        q(issued) == [asked |-> TRUE, current_mode |-> g1.mode,
                      hardware_controlled_mode |-> g1.hardware_controlled_mode,
                      issued |-> issued]
    IN  IF g1.status # eQCWWAN_ERR_NONE
          THEN [status |-> g1.status, resulting_mode |-> MM_DMS_OPERATION_MODE_INVALID,
                query |-> q(FALSE)]
        ELSE IF SkipSetPower(g1.mode, requested_mode, g1.hardware_controlled_mode)
          THEN [status |-> eQCWWAN_ERR_NONE, resulting_mode |-> g1.mode, query |-> q(FALSE)]
        ELSE IF set.st # eQCWWAN_ERR_NONE
          THEN [status |-> set.st, resulting_mode |-> MM_DMS_OPERATION_MODE_INVALID,
                query |-> q(TRUE)]
        ELSE IF set.Tlvresult # eQCWWAN_ERR_NONE
          THEN [status |-> set.Tlvresult, resulting_mode |-> MM_DMS_OPERATION_MODE_INVALID,
                query |-> q(TRUE)]
        ELSE [status |-> eQCWWAN_ERR_NONE, resulting_mode |-> requested_mode,
              query |-> q(TRUE)]

\* get1: the answer to the first GetPower; set: the answer to SetPower (if it
\* is sent); get2: the answer to the read-back (if it is made).
mm_dms_set_power_sync(requested_mode, get1, set, get2) ==
    LET g1 == mm_dms_get_power_sync(get1)
        g2 == mm_dms_get_power_sync(get2)
        q(issued) == [asked |-> TRUE, current_mode |-> g1.mode,
                      hardware_controlled_mode |-> g1.hardware_controlled_mode,
                      issued |-> issued]
    IN  IF g1.status # eQCWWAN_ERR_NONE
          THEN [status |-> g1.status, resulting_mode |-> MM_DMS_OPERATION_MODE_INVALID,
                query |-> q(FALSE)]
        ELSE IF SkipSetPower(g1.mode, requested_mode, g1.hardware_controlled_mode)
          THEN [status |-> eQCWWAN_ERR_NONE, resulting_mode |-> g1.mode, query |-> q(FALSE)]
        ELSE IF set.st # eQCWWAN_ERR_NONE
          THEN [status |-> set.st, resulting_mode |-> MM_DMS_OPERATION_MODE_INVALID,
                query |-> q(TRUE)]
        ELSE IF set.Tlvresult # eQCWWAN_ERR_NONE
          THEN [status |-> set.Tlvresult, resulting_mode |-> MM_DMS_OPERATION_MODE_INVALID,
                query |-> q(TRUE)]
        ELSE IF g2.status # eQCWWAN_ERR_NONE
          THEN [status |-> g2.status, resulting_mode |-> MM_DMS_OPERATION_MODE_INVALID,
                query |-> q(TRUE)]
        ELSE [status |-> IF g2.mode # requested_mode THEN eQCWWAN_ERR_GENERAL
                         ELSE eQCWWAN_ERR_NONE,
              resulting_mode |-> g2.mode, query |-> q(TRUE)]

\* mm_dms_initialize without the unwind of the vendor service after a failed
\* attach of the main DMS service.
mm_dms_initialize_keeps_swi(d, r_swi, r_dms, mdl, r_sd, r_ss) ==
    IF r_swi # eQCWWAN_ERR_NONE
      THEN [status |-> r_swi, dms |-> [d EXCEPT !.swi = FALSE, !.dms = FALSE],
            att |-> {}, det |-> {}]
    ELSE IF r_dms # eQCWWAN_ERR_NONE
      THEN [status |-> r_dms, dms |-> [d EXCEPT !.swi = TRUE, !.dms = FALSE],
            att |-> {"swi"}, det |-> {}]
    ELSE
      LET fetch == ~d.model_id
          st1 == IF fetch /\ mdl.st # eQCWWAN_ERR_NONE THEN mdl.st ELSE eQCWWAN_ERR_NONE
          cached == IF fetch THEN (mdl.st = eQCWWAN_ERR_NONE /\ mdl.present) ELSE d.model_id
      IN  IF st1 = eQCWWAN_ERR_NONE
            THEN [status |-> eQCWWAN_ERR_NONE,
                  dms |-> [swi |-> TRUE, dms |-> TRUE, model_id |-> cached],
                  att |-> {"swi", "dms"}, det |-> {}]
            ELSE [status |-> IF r_ss # eQCWWAN_ERR_NONE THEN r_ss
                             ELSE IF r_sd # eQCWWAN_ERR_NONE THEN r_sd ELSE st1,
                  dms |-> [swi |-> (r_ss # eQCWWAN_ERR_NONE),
                           dms |-> (r_sd # eQCWWAN_ERR_NONE), model_id |-> cached],
                  att |-> {"swi", "dms"}, det |-> {"swi", "dms"}]

\* r_swi, r_dms: results of the two attaches; mdl: the GetModelID exchange
\* (made only when nothing is cached); r_sd, r_ss: results of the detaches of
\* the unwind.  att / det: the handles attached with success / whose detach
\* was attempted.
mm_dms_initialize(d, r_swi, r_dms, mdl, r_sd, r_ss) ==
    IF r_swi # eQCWWAN_ERR_NONE
      THEN [status |-> r_swi, dms |-> [d EXCEPT !.swi = FALSE, !.dms = FALSE],
            att |-> {}, det |-> {}]
    ELSE IF r_dms # eQCWWAN_ERR_NONE
      THEN [status |-> IF r_ss # eQCWWAN_ERR_NONE THEN r_ss ELSE r_dms,
            dms |-> [d EXCEPT !.swi = (r_ss # eQCWWAN_ERR_NONE), !.dms = FALSE],
            att |-> {"swi"}, det |-> {"swi"}]
    ELSE
      LET fetch == ~d.model_id
          st1 == IF fetch /\ mdl.st # eQCWWAN_ERR_NONE THEN mdl.st ELSE eQCWWAN_ERR_NONE
          cached == IF fetch THEN (mdl.st = eQCWWAN_ERR_NONE /\ mdl.present) ELSE d.model_id
      IN  IF st1 = eQCWWAN_ERR_NONE
            THEN [status |-> eQCWWAN_ERR_NONE,
                  dms |-> [swi |-> TRUE, dms |-> TRUE, model_id |-> cached],
                  att |-> {"swi", "dms"}, det |-> {}]
            ELSE [status |-> IF r_ss # eQCWWAN_ERR_NONE THEN r_ss
                             ELSE IF r_sd # eQCWWAN_ERR_NONE THEN r_sd ELSE st1,
                  dms |-> [swi |-> (r_ss # eQCWWAN_ERR_NONE),
                           dms |-> (r_sd # eQCWWAN_ERR_NONE), model_id |-> cached],
                  att |-> {"swi", "dms"}, det |-> {"swi", "dms"}]

\* r_swi, r_dms: results of the two detaches.
mm_dms_shutdown(d, deallocate_cached_fields, r_swi, r_dms) ==
    [status |-> IF r_dms # eQCWWAN_ERR_NONE THEN r_dms ELSE r_swi,
     dms |-> [swi |-> (r_swi # eQCWWAN_ERR_NONE), dms |-> (r_dms # eQCWWAN_ERR_NONE),
              model_id |-> IF deallocate_cached_fields THEN FALSE ELSE d.model_id]]

ModelResponses == { [st |-> a, present |-> b] : a \in QmiResults, b \in BOOLEAN }

\* if ((status = mm_dms_initialize(&dms, ctl)) != eQCWWAN_ERR_NONE) break;
dms_attach ==
    /\ pc = "B_dms_init"
    /\ \E r_swi \in QmiResults, r_dms \in QmiResults, mdl \in ModelResponses,
          r_sd \in QmiResults, r_ss \in QmiResults :
         LET r == mm_dms_initialize(dms, r_swi, r_dms, mdl, r_sd, r_ss) IN
         /\ status' = r.status
         /\ dms' = r.dms
         /\ attachOK' = Bump(attachOK, r.att)
         /\ detachTry' = Bump(detachTry, r.det)
         /\ trace' = Append(trace, "dms_attach")
         /\ IF r.status # eQCWWAN_ERR_NONE
              THEN pc' = "returned" /\ fails' = fails \cup {pc}
              ELSE pc' = "B_set_power" /\ fails' = fails
    /\ UNCHANGED <<vOut, checked, exit_requested, vLocals, dmsq, vSess, iter, vInd>>

\* What initialize() does once mm_dms_set_power_sync has returned r:
\* "break" on an error status or on a resulting mode other than ONLINE,
\* else on to run_up_ipv6.
AfterSetPower(r) ==
    IF r.status # eQCWWAN_ERR_NONE THEN [status |-> r.status, pc |-> "returned"]
    ELSE IF r.resulting_mode # MM_DMS_OPERATION_MODE_ONLINE
      THEN [status |-> -1, pc |-> "returned"]
    ELSE [status |-> r.status, pc |-> "C6_attach"]

\* status = mm_dms_set_power_sync(&dms, MM_DMS_OPERATION_MODE_ONLINE, &mode)
\* and the test of mode that follows it.
set_online ==
    /\ pc = "B_set_power"
    /\ \E get1 \in PowerResponses, set \in SetPowerResponses, get2 \in PowerResponses :
         LET r == mm_dms_set_power_sync(MM_DMS_OPERATION_MODE_ONLINE, get1, set, get2)
             a == AfterSetPower(r)
         IN
         /\ status' = a.status
         /\ mode' = r.resulting_mode
         /\ dmsq' = r.query
         /\ pc' = a.pc
         /\ fails' = IF a.pc = "returned" THEN fails \cup {pc} ELSE fails
         /\ trace' = Append(trace, "set_online")
    /\ UNCHANGED <<vOut, checked, exit_requested, status6, status4, dms, vSess, iter, vCnt, vInd>>

(***************************************************************************)
(* WDS helpers (src/wds.c, src/run_helpers.c)                              *)
(***************************************************************************)
\* Session ids the modem hands out for a started session.
SessionIds == {1}

\* The exchanges of mm_start_session: the answer to SetIPFamilyPreference,
\* then the answer to StartDataSession (transport status, QMI result, whether
\* the session id TLV is there).  The modem hands out a session id only in
\* a response whose result is success.
StartResponses ==
    { r \in [pref : QmiResults, st : QmiResults, Tlvresult : QmiResults,
             sid_present : BOOLEAN, sid : SessionIds] :
        r.Tlvresult # eQCWWAN_ERR_NONE => ~r.sid_present }

\* session->session_id = 0; then the unpack stores the id through resp.psid
\* when the response carries it.
mm_wds_start_data_session(resp) ==
    IF resp.st # eQCWWAN_ERR_NONE THEN [status |-> resp.st, session_id |-> 0]
    ELSE
      LET sid == IF resp.sid_present THEN resp.sid ELSE 0 IN
      IF resp.Tlvresult # eQCWWAN_ERR_NONE THEN [status |-> resp.Tlvresult, session_id |-> sid]
      ELSE IF ~resp.sid_present THEN [status |-> -1, session_id |-> sid]
      ELSE [status |-> eQCWWAN_ERR_NONE, session_id |-> sid]

mm_start_session(session, resp) ==
    IF resp.pref # eQCWWAN_ERR_NONE
      THEN [status |-> resp.pref, session_id |-> session.session_id]
      ELSE mm_wds_start_data_session(resp)

\* The answer to GetRuntimeSettings, as run_up_ipv4 / run_up_ipv6 look at it.
SettingsResponses ==
    { [st |-> a, Tlvresult |-> b, address_present |-> c, gateway_present |-> d] :
        a \in QmiResults, b \in QmiResults, c \in BOOLEAN, d \in BOOLEAN }

\* status after mm_wds_get_runtime_settings and the address/gateway test.
RuntimeSettingsStatus(resp) ==
    IF resp.st # eQCWWAN_ERR_NONE THEN resp.st
    ELSE IF resp.Tlvresult # eQCWWAN_ERR_NONE THEN resp.Tlvresult
    ELSE IF ~resp.address_present \/ ~resp.gateway_present THEN -1
    ELSE eQCWWAN_ERR_NONE

\* Variant: "no effect" is not told apart from the other errors.
StopFailed_strict(check) == check # eQCWWAN_ERR_NONE

\* check != eQCWWAN_ERR_NONE && check != eQCWWAN_ERR_QMI_NO_EFFECT
StopFailed(check) == check # eQCWWAN_ERR_NONE /\ check # eQCWWAN_ERR_QMI_NO_EFFECT

(***************************************************************************)
(* wds_indication_callback                                                 *)
(***************************************************************************)
\* A packet-service-status indication: whether the packet unpacks, its result
\* TLV, whether the status TLV is there, the connection status, and the
\* optional session-end reason and verbose session-end reason TLVs.
WellFormed(cs, rp, r, vp, vt, vr) ==
    [msgid |-> "PKT_SRVC_STATUS", unpack |-> TRUE, Tlvresult |-> 0, status_present |-> TRUE,
     conn_status |-> cs, reason_present |-> rp, sessionEndReason |-> r,
     verbose_present |-> vp, verboseSessnEndReasonType |-> vt, verboseSessnEndReason |-> vr]

PacketIndications ==
    { WellFormed(cs, rp, r, vp, vt, vr) :
        cs \in {1, 2}, rp \in BOOLEAN, r \in {2, 7}, vp \in BOOLEAN, vt \in {3, 6},
        vr \in {2000, 2001} }

\* Some other WDS indication (the default branch of the switch).
OtherIndication == [WellFormed(2, FALSE, 2, FALSE, 3, 2000) EXCEPT !.msgid = "OTHER"]

\* DISCONNECTED, session end reason 7: the peer ended the session.
PeerEnded == WellFormed(1, TRUE, 7, FALSE, 3, 2001)
\* DISCONNECTED, session end reason 2: the client ended the session.
ClientEnded == WellFormed(1, TRUE, 2, FALSE, 3, 2001)
\* CONNECTED.
Connected == WellFormed(2, FALSE, 2, FALSE, 3, 2001)

\* A peer-ended disconnect that does not unpack, that carries an error
\* result, or that lacks the status TLV.
MalformedIndications ==
    { [PeerEnded EXCEPT !.unpack = FALSE], [PeerEnded EXCEPT !.Tlvresult = 1],
      [PeerEnded EXCEPT !.status_present = FALSE] }

AllIndications == PacketIndications \cup MalformedIndications \cup {OtherIndication}

\* The indications the supervisor model is run against.
SupervisorIndications == {PeerEnded, ClientEnded, Connected}

\* Variant: only the plain session-end reason marks a host-ended session.
HostEnded_reason_only(reason_present, session_end_reason, verbose_reason_present, verbose_session_end_reason_type, verbose_session_end_reason) ==
    reason_present /\ session_end_reason = 2

\* (reason_present && session_end_reason == 2) ||
\* (verbose_reason_present && type == 3 && reason == 2000)
HostEnded(reason_present, session_end_reason, verbose_reason_present, verbose_session_end_reason_type, verbose_session_end_reason) ==
    \/ reason_present /\ session_end_reason = 2
    \/ /\ verbose_reason_present
       /\ verbose_session_end_reason_type = 3
       /\ verbose_session_end_reason = 2000

\* Whether the callback reaches  session->teardown_requested = true.
\* has_session: context != NULL.
RequestsTeardown(has_session, session_id, ind) ==
    IF ind.msgid # "PKT_SRVC_STATUS" THEN FALSE
    ELSE IF ~ind.unpack THEN FALSE
    ELSE IF ind.Tlvresult # 0 THEN FALSE
    ELSE IF ~ind.status_present THEN FALSE
    ELSE
      LET reason_present == ind.reason_present
          session_end_reason == IF reason_present THEN ind.sessionEndReason ELSE 0
          verbose_reason_present == ind.verbose_present
          verbose_session_end_reason_type ==
              IF verbose_reason_present THEN ind.verboseSessnEndReasonType ELSE 0
          verbose_session_end_reason ==
              IF verbose_reason_present THEN ind.verboseSessnEndReason ELSE 0
          connection_status == ind.conn_status
      IN  /\ has_session
          /\ session_id # 0
          /\ connection_status = 1
          /\ ~HostEnded(reason_present, session_end_reason, verbose_reason_present,
                        verbose_session_end_reason_type, verbose_session_end_reason)

MonitorPcs == {"D_test_exit", "D_test_v4", "D_test_v6", "D_sleep"}

\* The fields of *session the callback reads for an indication that unpacks
\* with its status TLV: session_id as an argument of the three "signaled
\* session teardown" log lines, which are written when a session-end reason
\* or a verbose one is there and which do not test session; and session_id
\* in the test  session && session->session_id && ...  that follows.
CallbackReads(has_session, ind) ==
    IF ind.msgid # "PKT_SRVC_STATUS" THEN {}
    ELSE IF ~ind.unpack THEN {}
    ELSE IF ind.Tlvresult # 0 THEN {}
    ELSE IF ~ind.status_present THEN {}
    ELSE IF ind.verbose_present \/ ind.reason_present THEN {"session_id"}
    ELSE IF has_session THEN {"session_id"} ELSE {}

\* The fields of *session the callback writes: session->teardown_requested = true
CallbackWrites(has_session, session_id, ind) ==
    IF RequestsTeardown(has_session, session_id, ind) THEN {"teardown_requested"} ELSE {}

\* The fields of the session of family ctx that the main thread writes in the
\* call it makes at p, the session's handle being attached:
\* mm_wds_start_data_session stores session_id (0, then the modem's id through
\* resp.psid), profile and family; mm_wds_get_runtime_settings fills
\* last_runtime_settings; mm_wds_shutdown releases wds.
MainWrites(ctx, p) ==
    IF p = (IF ctx = "v4" THEN "C4_start" ELSE "C6_start")
      THEN {"session_id", "profile", "family"}
    ELSE IF p = (IF ctx = "v4" THEN "C4_settings" ELSE "C6_settings")
      THEN {"last_runtime_settings"}
    ELSE IF p = (IF ctx = "v4" THEN "C4_detach" ELSE "C6_detach")
      THEN {"wds"}
    ELSE {}

\* The fields of the session of family ctx that the main thread reads in the
\* call it makes at p: the requests go out on wds; the settings query looks at
\* family, the stop sends session_id, the monitor tests teardown_requested.
MainReads(ctx, p) ==
    IF p = (IF ctx = "v4" THEN "C4_start" ELSE "C6_start") THEN {"wds"}
    ELSE IF p = (IF ctx = "v4" THEN "C4_settings" ELSE "C6_settings") THEN {"wds", "family"}
    ELSE IF p = (IF ctx = "v4" THEN "C4_stop" ELSE "C6_stop") THEN {"wds", "session_id"}
    ELSE IF p = (IF ctx = "v4" THEN "D_test_v4" ELSE "D_test_v6") THEN {"teardown_requested"}
    ELSE {}

\* Variant: the callback assigns the outcome of its test to
\* teardown_requested instead of only setting it.
wds_indication_callback_assigns(ctx, ind, observed) ==
    /\ pc # "returned"
    /\ ctx \in {"v4", "v6"}
    /\ LET session == IF ctx = "v4" THEN s4 ELSE s6
           wrote == RequestsTeardown(TRUE, session.session_id, ind)
       IN  /\ session.attached
           /\ s4' = IF ctx = "v4" THEN [s4 EXCEPT !.teardown_requested = wrote] ELSE s4
           /\ s6' = IF ctx = "v6" THEN [s6 EXCEPT !.teardown_requested = wrote] ELSE s6
           /\ lastInd' = lastInd
           /\ peerEnd4' = (peerEnd4 \/ (ctx = "v4" /\ pc \in MonitorPcs /\ ind = PeerEnded))
    /\ UNCHANGED <<vOut, checked, pc, exit_requested, status, vLocals, vDms, ac_wds, iter, trace, fails,
                   vCnt, lateTicks>>

\* The callback runs on the transport's thread for a WDS handle that is
\* attached; ctx is the session the handle was attached with.  observed: the
\* indication and what the callback did with it are kept in lastInd.
wds_indication_callback(ctx, ind, observed) ==
    /\ pc # "returned"
    /\ ctx \in {"v4", "v6"}
    /\ LET session == IF ctx = "v4" THEN s4 ELSE s6
           wrote == RequestsTeardown(TRUE, session.session_id, ind)
       IN  /\ session.attached
           /\ s4' = IF ctx = "v4" /\ wrote THEN [s4 EXCEPT !.teardown_requested = TRUE] ELSE s4
           /\ s6' = IF ctx = "v6" /\ wrote THEN [s6 EXCEPT !.teardown_requested = TRUE] ELSE s6
           /\ lastInd' = IF observed
                            THEN [ctx |-> ctx, ind |-> ind, session_id |-> session.session_id,
                                  before |-> session.teardown_requested, wrote |-> wrote,
                                  reads |-> CallbackReads(TRUE, ind),
                                  writes |-> CallbackWrites(TRUE, session.session_id, ind)]
                            ELSE lastInd
           /\ peerEnd4' = (peerEnd4 \/ (ctx = "v4" /\ pc \in MonitorPcs /\ ind = PeerEnded))
    /\ UNCHANGED <<vOut, checked, pc, exit_requested, status, vLocals, vDms, ac_wds, iter, trace, fails,
                   vCnt, lateTicks>>

(***************************************************************************)
(* run_up_ipv6(): Phase C, v6 part                                         *)
(***************************************************************************)
\* memset(&session_v6, 0, ...); mm_wds_initialize(&session_v6.wds, ctl, &session_v6)
wds6_attach ==
    /\ pc = "C6_attach"
    /\ \E r \in QmiResults :
         /\ trace' = Append(trace, "wds6_attach")
         /\ status6' = r
         /\ IF r # eQCWWAN_ERR_NONE
              THEN /\ exit_requested' = TRUE
                   /\ status' = r
                   /\ s6' = ZeroSession
                   /\ attachOK' = attachOK
                   /\ fails' = fails \cup {pc}
                   /\ pc' = "B_dms_shutdown"
              ELSE /\ exit_requested' = exit_requested
                   /\ status' = status
                   /\ s6' = [ZeroSession EXCEPT !.attached = TRUE]
                   /\ attachOK' = Bump(attachOK, {"v6"})
                   /\ fails' = fails
                   /\ pc' = "C6_start"
    /\ UNCHANGED <<vOut, checked, status4, mode, vDms, ac_wds, s4, iter, detachTry, vInd>>

\* mm_start_session(&session_v6, PROFILE_3GPP_VZWINTERNET, ..._IPV6)
wds6_up ==
    /\ pc = "C6_start"
    /\ \E resp \in StartResponses :
         LET r == mm_start_session(s6, resp) IN
         /\ trace' = Append(trace, "wds6_up")
         /\ status6' = r.status
         /\ s6' = [s6 EXCEPT !.session_id = r.session_id]
         /\ IF r.status = eQCWWAN_ERR_NONE
              THEN pc' = "C6_settings" /\ fails' = fails
              ELSE pc' = "C6_detach" /\ fails' = fails \cup {pc}
    /\ UNCHANGED <<vOut, checked, exit_requested, status, status4, mode, vDms, ac_wds, s4, iter, vCnt, vInd>>

\* mm_wds_get_runtime_settings(&session_v6, ...) and the presence test
wds6_settings ==
    /\ pc = "C6_settings"
    /\ \E resp \in SettingsResponses :
         LET r == RuntimeSettingsStatus(resp) IN
         /\ trace' = Append(trace, "wds6_settings")
         /\ status6' = r
         /\ IF r = eQCWWAN_ERR_NONE
              THEN pc' = "C6_apply" /\ fails' = fails
              ELSE pc' = "C6_stop" /\ fails' = fails \cup {pc}
    /\ UNCHANGED <<vOut, checked, exit_requested, status, status4, mode, vDms, vSess, iter, vCnt, vInd>>

\* mm_apply_ipv6_runtime_settings(mm_nl, ..., false)
wds6_apply ==
    /\ pc = "C6_apply"
    /\ \E r \in NlResults :
         /\ trace' = Append(trace, "wds6_apply")
         /\ status6' = r
         /\ IF r = eQCWWAN_ERR_NONE
              THEN pc' = "C4_attach" /\ fails' = fails /\ exit_requested' = exit_requested
              ELSE pc' = "C6_stop" /\ fails' = fails \cup {pc} /\ exit_requested' = TRUE
    /\ UNCHANGED <<vOut, checked, status, status4, mode, vDms, vSess, iter, vCnt, vInd>>

\* mm_wds_stop_data_session(&session_v6)
wds6_stop ==
    /\ pc = "C6_stop"
    /\ \E check \in StopResults :
         /\ checked' = check
         /\ trace' = Append(trace, "wds6_stop")
         /\ IF StopFailed(check)
              THEN exit_requested' = TRUE /\ status6' = check /\ fails' = fails \cup {pc}
              ELSE exit_requested' = exit_requested /\ status6' = status6 /\ fails' = fails
         /\ pc' = "C6_detach"
    /\ UNCHANGED <<vOut, status, status4, mode, vDms, vSess, iter, vCnt, vInd>>

\* mm_wds_shutdown(&session_v6.wds, ctl); return status;
\* and in initialize():  status = run_up_ipv6(...)
wds6_detach ==
    /\ pc = "C6_detach"
    /\ \E check \in QmiResults :
         LET st == IF check # eQCWWAN_ERR_NONE THEN check ELSE status6 IN
         /\ checked' = check
         /\ trace' = Append(trace, "wds6_detach")
         /\ status6' = st
         /\ status' = st
         /\ s6' = [s6 EXCEPT !.attached = (check # eQCWWAN_ERR_NONE)]
         /\ detachTry' = Bump(detachTry, {"v6"})
         /\ IF check # eQCWWAN_ERR_NONE
              THEN exit_requested' = TRUE /\ fails' = fails \cup {pc}
              ELSE exit_requested' = exit_requested /\ fails' = fails
         /\ pc' = "B_dms_shutdown"
    /\ UNCHANGED <<vOut, status4, mode, vDms, ac_wds, s4, iter, attachOK, vInd>>

(***************************************************************************)
(* run_up_ipv4(): Phase C, v4 part                                         *)
(***************************************************************************)
\* memset(&session_v4, 0, ...); mm_wds_initialize(&session_v4.wds, ctl, &session_v4)
\* On failure run_up_ipv4 returns at once and run_up_ipv6 takes its status.
wds4_attach ==
    /\ pc = "C4_attach"
    /\ \E r \in QmiResults :
         /\ trace' = Append(trace, "wds4_attach")
         /\ status4' = r
         /\ IF r # eQCWWAN_ERR_NONE
              THEN /\ exit_requested' = TRUE
                   /\ status6' = r
                   /\ s4' = ZeroSession
                   /\ attachOK' = attachOK
                   /\ fails' = fails \cup {pc}
                   /\ pc' = "C6_stop"
              ELSE /\ exit_requested' = exit_requested
                   /\ status6' = status6
                   /\ s4' = [ZeroSession EXCEPT !.attached = TRUE]
                   /\ attachOK' = Bump(attachOK, {"v4"})
                   /\ fails' = fails
                   /\ pc' = "C4_start"
    /\ UNCHANGED <<vOut, checked, status, mode, vDms, ac_wds, s6, iter, detachTry, vInd>>

\* Variant: a failed start of the v4 session requests the exit.
wds4_up_fatal ==
    /\ pc = "C4_start"
    /\ \E resp \in StartResponses :
         LET r == mm_start_session(s4, resp) IN
         /\ trace' = Append(trace, "wds4_up")
         /\ status4' = r.status
         /\ s4' = [s4 EXCEPT !.session_id = r.session_id]
         /\ IF r.status = eQCWWAN_ERR_NONE
              THEN pc' = "C4_settings" /\ fails' = fails /\ exit_requested' = exit_requested
              ELSE pc' = "C4_detach" /\ fails' = fails \cup {pc} /\ exit_requested' = TRUE
    /\ UNCHANGED <<vOut, checked, status, status6, mode, vDms, ac_wds, s6, iter, vCnt, vInd>>

\* mm_start_session(&session_v4, PROFILE_3GPP_VZWINTERNET, ..._IPV4)
wds4_up ==
    /\ pc = "C4_start"
    /\ \E resp \in StartResponses :
         LET r == mm_start_session(s4, resp) IN
         /\ trace' = Append(trace, "wds4_up")
         /\ status4' = r.status
         /\ s4' = [s4 EXCEPT !.session_id = r.session_id]
         /\ IF r.status = eQCWWAN_ERR_NONE
              THEN pc' = "C4_settings" /\ fails' = fails
              ELSE pc' = "C4_detach" /\ fails' = fails \cup {pc}
    /\ UNCHANGED <<vOut, checked, exit_requested, status, status6, mode, vDms, ac_wds, s6, iter, vCnt, vInd>>

\* Variant: when the settings cannot be had the session is not stopped.
wds4_settings_skips_stop ==
    /\ pc = "C4_settings"
    /\ \E resp \in SettingsResponses :
         LET r == RuntimeSettingsStatus(resp) IN
         /\ trace' = Append(trace, "wds4_settings")
         /\ status4' = r
         /\ IF r = eQCWWAN_ERR_NONE
              THEN pc' = "C4_apply" /\ fails' = fails
              ELSE pc' = "C4_detach" /\ fails' = fails \cup {pc}
    /\ UNCHANGED <<vOut, checked, exit_requested, status, status6, mode, vDms, vSess, iter, vCnt, vInd>>

\* mm_wds_get_runtime_settings(&session_v4, ...) and the presence test
wds4_settings ==
    /\ pc = "C4_settings"
    /\ \E resp \in SettingsResponses :
         LET r == RuntimeSettingsStatus(resp) IN
         /\ trace' = Append(trace, "wds4_settings")
         /\ status4' = r
         /\ IF r = eQCWWAN_ERR_NONE
              THEN pc' = "C4_apply" /\ fails' = fails
              ELSE pc' = "C4_stop" /\ fails' = fails \cup {pc}
    /\ UNCHANGED <<vOut, checked, exit_requested, status, status6, mode, vDms, vSess, iter, vCnt, vInd>>

\* A bring-up call of run_up_ipv4 whose result is assigned to status; on
\* failure the code falls through to the stop of the v4 session, setting
\* exit_requested when fatal.
BringUpStep(here, op, Results, next, fatal) ==
    /\ pc = here
    /\ \E r \in Results :
         /\ trace' = Append(trace, op)
         /\ status4' = r
         /\ IF r = 0
              THEN pc' = next /\ fails' = fails /\ exit_requested' = exit_requested
              ELSE /\ pc' = "C4_stop"
                   /\ fails' = fails \cup {here}
                   /\ exit_requested' = (exit_requested \/ fatal)
    /\ UNCHANGED <<vOut, checked, status, status6, mode, vDms, vSess, iter, vCnt, vInd>>

\* mm_apply_ipv4_runtime_settings(mm_nl, ..., false)
wds4_apply == BringUpStep("C4_apply", "wds4_apply", NlResults, "C4_unbound", TRUE)

\* mm_sdbus_manage_service(bus, "StartUnit", "unbound.service")
start_unbound == BringUpStep("C4_unbound", "start_unbound", BusResults, "C4_setconf", TRUE)

\* Variant: the tunnel link is not brought up after setconf.
wg_setconf_skips_link_up ==
    BringUpStep("C4_setconf", "wg_setconf", SetconfResults, "C4_routes", FALSE)

\* (status = mm_exec_wireguard_setconf())
wg_setconf == BringUpStep("C4_setconf", "wg_setconf", SetconfResults, "C4_wg0_up", FALSE)

\* (status = mm_netlink_ensure_wg0_interface_state(mm_nl, true))
wg0_up == BringUpStep("C4_wg0_up", "wg0_up", NlResults, "C4_routes", FALSE)

\* || mm_netlink_ensure_wg0_routes_are_applied(mm_nl): the result is tested
\* but not assigned to status.
wg0_routes ==
    /\ pc = "C4_routes"
    /\ \E r \in NlResults :
         /\ trace' = Append(trace, "wg0_routes")
         /\ IF r = 0 THEN pc' = "C4_chrony" /\ fails' = fails
                     ELSE pc' = "C4_stop" /\ fails' = fails \cup {pc}
    /\ UNCHANGED <<vOut, checked, exit_requested, status, vLocals, vDms, vSess, iter, vCnt, vInd>>

\* Variant: a failed start of chrony does not request the exit.
start_chrony_not_fatal == BringUpStep("C4_chrony", "start_chrony", BusResults, "D_enter", FALSE)

\* mm_sdbus_manage_service(bus, "StartUnit", "chrony.service")
start_chrony == BringUpStep("C4_chrony", "start_chrony", BusResults, "D_enter", TRUE)

(***************************************************************************)
(* run_sessions_up(): Phase D, the monitor                                 *)
(***************************************************************************)
\* status = run_sessions_up(dms, mm_nl, &session_v4, session_v6): the call.
monitor_enter ==
    /\ pc = "D_enter"
    /\ trace' = Append(trace, "monitor")
    /\ lateTicks' = 0
    /\ pc' = "D_test_exit"
    /\ UNCHANGED <<vOut, checked, exit_requested, status, vLocals, vDms, vSess, iter, fails, vCnt,
                   lastInd, peerEnd4>>

\* The loop condition reads its three flags one after the other; the signal
\* handler and the callback may run in between.
\* while (!exit_requested && ...
monitor_test_exit ==
    /\ pc = "D_test_exit"
    /\ IF exit_requested THEN pc' = "C4_stop" /\ status4' = 0
                         ELSE pc' = "D_test_v4" /\ status4' = status4
    /\ UNCHANGED <<vOut, checked, exit_requested, status, status6, mode, vDms, vSess, iter, trace, fails,
                   vCnt, vInd>>

\* Variant: the loop condition does not read the v4 flag.
monitor_test_v4_blind ==
    /\ pc = "D_test_v4"
    /\ pc' = "D_test_v6"
    /\ UNCHANGED <<vOut, checked, exit_requested, status, vLocals, vDms, vSess, iter, trace, fails,
                   vCnt, vInd>>

\* ... && !session_v4->teardown_requested && ...
monitor_test_v4 ==
    /\ pc = "D_test_v4"
    /\ IF s4.teardown_requested THEN pc' = "C4_stop" /\ status4' = 0
                                ELSE pc' = "D_test_v6" /\ status4' = status4
    /\ UNCHANGED <<vOut, checked, exit_requested, status, status6, mode, vDms, vSess, iter, trace, fails,
                   vCnt, vInd>>

\* Variant: the loop condition does not read the v6 flag.
monitor_test_v6_blind ==
    /\ pc = "D_test_v6"
    /\ pc' = "D_sleep"
    /\ UNCHANGED <<vOut, checked, exit_requested, status, vLocals, vDms, vSess, iter, trace, fails,
                   vCnt, vInd>>

\* ... && !session_v6->teardown_requested)
monitor_test_v6 ==
    /\ pc = "D_test_v6"
    /\ IF s6.teardown_requested THEN pc' = "C4_stop" /\ status4' = 0
                                ELSE pc' = "D_sleep" /\ status4' = status4
    /\ UNCHANGED <<vOut, checked, exit_requested, status, status6, mode, vDms, vSess, iter, trace, fails,
                   vCnt, vInd>>

AnyFlag == exit_requested \/ s4.teardown_requested \/ s6.teardown_requested

\* sleep(1)
monitor_sleep ==
    /\ pc = "D_sleep"
    /\ pc' = "D_test_exit"
    /\ lateTicks' = IF AnyFlag /\ lateTicks < 2 THEN lateTicks + 1 ELSE lateTicks
    /\ UNCHANGED <<vOut, checked, exit_requested, status, vLocals, vDms, vSess, iter, trace, fails, vCnt,
                   lastInd, peerEnd4>>

(***************************************************************************)
(* run_up_ipv4(): teardown of the v4 session                               *)
(***************************************************************************)
\* mm_wds_stop_data_session(&session_v4)
wds4_stop ==
    /\ pc = "C4_stop"
    /\ \E check \in StopResults :
         /\ checked' = check
         /\ trace' = Append(trace, "wds4_stop")
         /\ IF StopFailed(check)
              THEN exit_requested' = TRUE /\ status4' = check /\ fails' = fails \cup {pc}
              ELSE exit_requested' = exit_requested /\ status4' = status4 /\ fails' = fails
         /\ pc' = "C4_detach"
    /\ UNCHANGED <<vOut, status, status6, mode, vDms, vSess, iter, vCnt, vInd>>

\* mm_wds_shutdown(&session_v4.wds, ctl); return status;
\* and in run_up_ipv6():  status = run_up_ipv4(...)
wds4_detach ==
    /\ pc = "C4_detach"
    /\ \E check \in QmiResults :
         LET st == IF check # eQCWWAN_ERR_NONE THEN check ELSE status4 IN
         /\ checked' = check
         /\ trace' = Append(trace, "wds4_detach")
         /\ status4' = st
         /\ status6' = st
         /\ s4' = [s4 EXCEPT !.attached = (check # eQCWWAN_ERR_NONE)]
         /\ detachTry' = Bump(detachTry, {"v4"})
         /\ IF check # eQCWWAN_ERR_NONE
              THEN exit_requested' = TRUE /\ fails' = fails \cup {pc}
              ELSE exit_requested' = exit_requested /\ fails' = fails
         /\ pc' = "C6_stop"
    /\ UNCHANGED <<vOut, status, mode, vDms, ac_wds, s6, iter, attachOK, vInd>>

(***************************************************************************)
(* initialize(): Phase B, cleanup and back-off                             *)
(***************************************************************************)
\* if ((check = mm_dms_shutdown(&dms, ctl, exit_requested)) != NONE) { status = check; break; }
dms_detach ==
    /\ pc = "B_dms_shutdown"
    /\ \E r_swi \in QmiResults, r_dms \in QmiResults :
         LET r == mm_dms_shutdown(dms, exit_requested, r_swi, r_dms) IN
         /\ checked' = r.status
         /\ trace' = Append(trace, "dms_detach")
         /\ dms' = r.dms
         /\ detachTry' = Bump(detachTry, {"swi", "dms"})
         /\ IF r.status # eQCWWAN_ERR_NONE
              THEN status' = r.status /\ pc' = "returned" /\ fails' = fails \cup {pc}
              ELSE status' = status /\ pc' = "B_reload2" /\ fails' = fails
    /\ UNCHANGED <<vOut, exit_requested, vLocals, dmsq, vSess, iter, attachOK, vInd>>

reload_link_cache_after == CheckStep("B_reload2", "reload_link_cache", NlResults, "B_wwan_down")

wwan_down == CheckStep("B_wwan_down", "wwan_down", NlResults, "B_wg0_down")

wg0_down == CheckStep("B_wg0_down", "wg0_down", NlResults, "B_stop_chrony2")

\* Variant: a failed stop is recorded in status only.
FinalStopStep_keeps_running(here, op, next) ==
    /\ pc = here
    /\ \E check \in BusResults :
         /\ checked' = check
         /\ trace' = Append(trace, op)
         /\ IF check # 0
              THEN status' = check /\ fails' = fails \cup {here}
              ELSE status' = status /\ fails' = fails
         /\ pc' = next
    /\ UNCHANGED <<vOut, exit_requested, vLocals, vDms, vSess, iter, vCnt, vInd>>

\* An end-of-iteration StopUnit: a failure sets exit_requested and status,
\* and the code goes on.
FinalStopStep(here, op, next) ==
    /\ pc = here
    /\ \E check \in BusResults :
         /\ checked' = check
         /\ trace' = Append(trace, op)
         /\ IF check # 0
              THEN exit_requested' = TRUE /\ status' = check /\ fails' = fails \cup {here}
              ELSE exit_requested' = exit_requested /\ status' = status /\ fails' = fails
         /\ pc' = next
    /\ UNCHANGED <<vOut, vLocals, vDms, vSess, iter, vCnt, vInd>>

stop_chrony_after == FinalStopStep("B_stop_chrony2", "stop_chrony", "B_stop_unbound2")

stop_unbound_after == FinalStopStep("B_stop_unbound2", "stop_unbound", "B_sleep_test")

\* Variant: the back-off is never taken.
BackoffCondition_never(e) == FALSE

\* if (!exit_requested)
BackoffCondition(e) == ~e

backoff_test ==
    /\ pc = "B_sleep_test"
    /\ pc' = IF BackoffCondition(exit_requested) THEN "B_sleep" ELSE "B_while"
    /\ UNCHANGED <<vOut, checked, exit_requested, status, vLocals, vDms, vSess, iter, trace, fails, vCnt, vInd>>

\* sleep(10)
backoff_sleep ==
    /\ pc = "B_sleep"
    /\ trace' = Append(trace, "sleep10")
    /\ pc' = "B_while"
    /\ UNCHANGED <<vOut, checked, exit_requested, status, vLocals, vDms, vSess, iter, fails, vCnt, vInd>>

(***************************************************************************)
(* main(): start-up, the call of initialize(), and the teardown             *)
(***************************************************************************)
\* A start-up call of main: on success main goes on to next; on failure it
\* sets status = EXIT_FAILURE and goes to the teardown step onfail.
StartupStep(here, Results, next, onfail) ==
    /\ mpc = here
    /\ \E r \in Results :
         IF r = 0 THEN mpc' = next /\ main_status' = main_status
                  ELSE mpc' = onfail /\ main_status' = EXIT_FAILURE
    /\ UNCHANGED <<pc, exit_requested, status, vLocals, vDms, vSess, iter, trace, fails,
                   vCnt, vInd, checked, vFn>>

\* exit_requested = false; if (sigaction(SIGINT, &sa, NULL)) return EXIT_FAILURE;
main_sigaction == StartupStep("M_sigaction", NlResults, "M_qmux_init", "exited")

\* if (mm_qmux_transport_initialize(&qmux) != eQCWWAN_ERR_NONE) return EXIT_FAILURE;
main_qmux_init == StartupStep("M_qmux_init", QmiResults, "M_ctl_init", "exited")

\* if (mm_ctl_initialize(&ctl, &qmux) != eQCWWAN_ERR_NONE) status = EXIT_FAILURE;
main_ctl_init == StartupStep("M_ctl_init", QmiResults, "M_nl_init", "M_qmux_shutdown")

\* if (mm_netlink_initialize(&mm_nl)) status = EXIT_FAILURE;
main_nl_init == StartupStep("M_nl_init", NlResults, "M_bus_open", "M_ctl_shutdown")

\* if (sd_bus_open_system(&bus) < 0) status = EXIT_FAILURE;
\* else main calls initialize(&ctl, &mm_nl, bus).
main_bus_open ==
    /\ mpc = "M_bus_open"
    /\ \E r \in BusResults :
         IF r = 0 THEN mpc' = "initialize" /\ pc' = "A_wg0_down" /\ main_status' = main_status
                  ELSE mpc' = "M_wwan_shutdown" /\ pc' = pc /\ main_status' = EXIT_FAILURE
    /\ UNCHANGED <<exit_requested, status, vLocals, vDms, vSess, iter, trace, fails,
                   vCnt, vInd, checked, vFn>>

\* Variant: the exit code does not look at what initialize() returned.
ExitStatus_always_success(st) == EXIT_SUCCESS

\* initialize(&ctl, &mm_nl, bus) ? EXIT_FAILURE : EXIT_SUCCESS
ExitStatus(st) == IF st # 0 THEN EXIT_FAILURE ELSE EXIT_SUCCESS

\* The rest of main once initialize() has returned; none of these calls
\* branches on a result:
\*   status = initialize(...) ? EXIT_FAILURE : EXIT_SUCCESS;
\*   sd_bus_close(bus); sd_bus_unref(bus);
\*   addr_flush || reload_link_cache || ensure_wwan_interface_state(false);
\*   mm_netlink_shutdown(&mm_nl); mm_ctl_shutdown(&ctl);
\*   mm_qmux_transport_shutdown(&qmux); return status;
main_after_initialize ==
    /\ mpc = "initialize"
    /\ pc = "returned"
    /\ main_status' = ExitStatus(status)
    /\ mpc' = "exited"
    /\ UNCHANGED <<pc, exit_requested, status, vLocals, vDms, vSess, iter, trace, fails,
                   vCnt, vInd, checked, vFn>>

\* A teardown call of main whose result (if any) is only logged.
TeardownStep(here, next) ==
    /\ mpc = here
    /\ mpc' = next
    /\ UNCHANGED <<pc, exit_requested, status, vLocals, vDms, vSess, iter, trace, fails,
                   vCnt, vInd, checked, main_status, vFn>>

\* The teardown after a failed start-up, from the point that was reached.
\* addr_flush || reload_link_cache || ensure_wwan_interface_state(false): a
\* failure is logged; then mm_netlink_shutdown(&mm_nl)
main_wwan_shutdown == TeardownStep("M_wwan_shutdown", "M_ctl_shutdown")

\* mm_ctl_shutdown(&ctl)
main_ctl_shutdown == TeardownStep("M_ctl_shutdown", "M_qmux_shutdown")

\* mm_qmux_transport_shutdown(&qmux); return status;
main_qmux_shutdown == TeardownStep("M_qmux_shutdown", "exited")

(***************************************************************************)
(* Specifications                                                          *)
(***************************************************************************)
\* The steps of initialize().
InitializeSteps ==
    \/ prelude_wg0_down
    \/ autoconnect_attach
    \/ autoconnect_set
    \/ autoconnect_detach
    \/ outer_loop_test
    \/ reload_link_cache
    \/ stop_chrony_before
    \/ stop_unbound_before
    \/ wwan_up
    \/ addr_flush
    \/ dms_attach
    \/ set_online
    \/ wds6_attach
    \/ wds6_up
    \/ wds6_settings
    \/ wds6_apply
    \/ wds4_attach
    \/ wds4_up
    \/ wds4_settings
    \/ wds4_apply
    \/ start_unbound
    \/ wg_setconf
    \/ wg0_up
    \/ wg0_routes
    \/ start_chrony
    \/ monitor_enter
    \/ monitor_test_exit
    \/ monitor_test_v4
    \/ monitor_test_v6
    \/ monitor_sleep
    \/ wds4_stop
    \/ wds4_detach
    \/ wds6_stop
    \/ wds6_detach
    \/ dms_detach
    \/ reload_link_cache_after
    \/ wwan_down
    \/ wg0_down
    \/ stop_chrony_after
    \/ stop_unbound_after
    \/ backoff_test
    \/ backoff_sleep

\* The steps of main() itself.
MainSteps ==
    \/ main_sigaction
    \/ main_qmux_init
    \/ main_ctl_init
    \/ main_nl_init
    \/ main_bus_open
    \/ main_after_initialize
    \/ main_wwan_shutdown
    \/ main_ctl_shutdown
    \/ main_qmux_shutdown

\* The steps of the main thread.
Main ==
    \/ InitializeSteps
    \/ MainSteps

\* An indication reaches the callback of an attached session handle.
Indication ==
    \E ctx \in {"v4", "v6"}, ind \in SupervisorIndications :
        wds_indication_callback(ctx, ind, FALSE)

Next ==
    \/ Main
    \/ handle_signal
    \/ Indication

Spec == Init /\ [][Next]_vars

\* The main thread is never starved: every call it makes returns.
FairSpec == Spec /\ WF_vars(Main)

(***************************************************************************)
(* The indication callback on its own, against every indication.  It is    *)
(* started from the supervisor states in which both WDS handles are        *)
(* attached: v6 is up and v4 is about to be started, or both are up and    *)
(* the monitor sleeps.                                                     *)
(***************************************************************************)
BeforeV4Start ==
    <<"reload_link_cache", "stop_chrony", "stop_unbound", "wwan_up", "addr_flush",
      "dms_attach", "set_online", "wds6_attach", "wds6_up", "wds6_settings",
      "wds6_apply", "wds4_attach">>

InMonitor ==
    BeforeV4Start \o
    <<"wds4_up", "wds4_settings", "wds4_apply", "start_unbound", "wg_setconf", "wg0_up",
      "wg0_routes", "start_chrony", "monitor">>

InitInd ==
    /\ pc \in {"C4_start", "D_sleep"}
    /\ exit_requested = FALSE
    /\ status = 0
    /\ status6 = 0
    /\ status4 = 0
    /\ mode = MM_DMS_OPERATION_MODE_ONLINE
    /\ dms \in {[swi |-> TRUE, dms |-> TRUE, model_id |-> m] : m \in BOOLEAN}
    /\ dmsq = [asked |-> TRUE, current_mode |-> MM_DMS_OPERATION_MODE_ONLINE,
               hardware_controlled_mode |-> FALSE, issued |-> FALSE]
    /\ ac_wds = FALSE
    /\ s6 \in {[attached |-> TRUE, session_id |-> i, teardown_requested |-> t] :
                 i \in SessionIds, t \in BOOLEAN}
    /\ s4 \in IF pc = "C4_start"
                THEN {[ZeroSession EXCEPT !.attached = TRUE]}
                ELSE {[attached |-> TRUE, session_id |-> i, teardown_requested |-> t] :
                        i \in SessionIds, t \in BOOLEAN}
    /\ iter = 1
    /\ trace = IF pc = "C4_start" THEN BeforeV4Start ELSE InMonitor
    /\ fails = {}
    /\ attachOK = [h \in Handles |-> 1]
    /\ detachTry = [h \in Handles |-> IF h = "ac" THEN 1 ELSE 0]
    /\ lastInd = NoInd
    /\ peerEnd4 = (pc = "D_sleep" /\ s4.teardown_requested)
    /\ lateTicks = 0
    /\ checked = 0
    /\ mpc = "initialize"
    /\ main_status = EXIT_FAILURE
    /\ pwr = NoPowerCall
    /\ wdsq = NoCall
    /\ nlk = NoCall

NextInd ==
    \E ctx \in {"v4", "v6"}, ind \in AllIndications :
        wds_indication_callback(ctx, ind, TRUE)

SpecInd == InitInd /\ [][NextInd]_vars

(***************************************************************************)
(* mm_dms_set_power_sync on its own: one call with any requested mode and  *)
(* any answers of the modem, made where initialize() makes it (first       *)
(* iteration, both DMS handles attached).                                  *)
(***************************************************************************)
BeforeSetPower ==
    <<"reload_link_cache", "stop_chrony", "stop_unbound", "wwan_up", "addr_flush",
      "dms_attach">>

RequestedModes == {MM_DMS_OPERATION_MODE_ONLINE, MM_DMS_OPERATION_MODE_LOW_POWER}

InitPower ==
    /\ pc = "B_set_power"
    /\ exit_requested = FALSE
    /\ status = eQCWWAN_ERR_NONE
    /\ status6 = 0
    /\ status4 = 0
    /\ mode = MM_DMS_OPERATION_MODE_INVALID
    /\ dms \in {[swi |-> TRUE, dms |-> TRUE, model_id |-> m] : m \in BOOLEAN}
    /\ dmsq = NoQuery
    /\ ac_wds = FALSE
    /\ s4 = ZeroSession
    /\ s6 = ZeroSession
    /\ iter = 1
    /\ trace = BeforeSetPower
    /\ fails = {}
    /\ attachOK = [h \in Handles |-> IF h \in {"ac", "swi", "dms"} THEN 1 ELSE 0]
    /\ detachTry = [h \in Handles |-> IF h = "ac" THEN 1 ELSE 0]
    /\ lastInd = NoInd
    /\ peerEnd4 = FALSE
    /\ lateTicks = 0
    /\ checked = 0
    /\ mpc = "initialize"
    /\ main_status = EXIT_FAILURE
    /\ pwr \in { [called |-> FALSE, requested |-> rq, get1 |-> a, set |-> b, get2 |-> c] :
                   rq \in RequestedModes, a \in PowerResponses, b \in SetPowerResponses,
                   c \in PowerResponses }
    /\ wdsq = NoCall
    /\ nlk = NoCall

\* status = mm_dms_set_power_sync(&dms, pwr.requested, &mode)
set_power_call ==
    /\ pc = "B_set_power"
    /\ ~pwr.called
    /\ LET r == mm_dms_set_power_sync(pwr.requested, pwr.get1, pwr.set, pwr.get2) IN
         /\ status' = r.status
         /\ mode' = r.resulting_mode
         /\ dmsq' = r.query
    /\ pwr' = [pwr EXCEPT !.called = TRUE]
    /\ trace' = Append(trace, "set_power")
    /\ UNCHANGED <<pc, exit_requested, status6, status4, dms, vSess, iter, fails, vCnt, vInd,
                   checked, mpc, main_status, wdsq, nlk>>

NextPower == set_power_call

SpecPower == InitPower /\ [][NextPower]_vars

(***************************************************************************)
(* Helpers called on their own.  The supervisor has not made a call yet:   *)
(* its variables are as the process starts with them and stay so.          *)
(***************************************************************************)
SupervisorIdle ==
    /\ pc = "not_called"
    /\ exit_requested = FALSE
    /\ status = 0
    /\ status6 = 0
    /\ status4 = 0
    /\ mode = MM_DMS_OPERATION_MODE_INVALID
    /\ dms = ZeroDms
    /\ dmsq = NoQuery
    /\ ac_wds = FALSE
    /\ s4 = ZeroSession
    /\ s6 = ZeroSession
    /\ iter = 0
    /\ trace = <<>>
    /\ fails = {}
    /\ attachOK = [h \in Handles |-> 0]
    /\ detachTry = [h \in Handles |-> 0]
    /\ lastInd = NoInd
    /\ peerEnd4 = FALSE
    /\ lateTicks = 0
    /\ checked = 0
    /\ mpc = "M_sigaction"
    /\ main_status = EXIT_FAILURE

(***************************************************************************)
(* mm_wds_set_autoconnect_settings on its own (src/wds.c)                  *)
(***************************************************************************)
AutoconnectSettings ==
    {MM_WDS_AUTOCONNECT_SETTING_DISABLED, MM_WDS_AUTOCONNECT_SETTING_ENABLED,
     MM_WDS_AUTOCONNECT_SETTING_PAUSED}

AutoconnectRoamSettings ==
    {MM_WDS_AUTOCONNECT_ROAM_SETTING_ALWAYS, MM_WDS_AUTOCONNECT_ROAM_SETTING_HOME_ONLY}

\* What the modem can answer to GetAutoconnect: a transport error, a QMI
\* error result, or a response in which each of the two values may be missing.
GetAutoconnectResponses ==
    { [st |-> eQCWWAN_ERR_GENERAL, Tlvresult |-> 0, ac_present |-> FALSE,
       autoconnect_setting |-> MM_WDS_AUTOCONNECT_SETTING_DISABLED, roam_present |-> FALSE,
       Autoconnect_roam_setting |-> MM_WDS_AUTOCONNECT_ROAM_SETTING_ALWAYS],
      [st |-> eQCWWAN_ERR_NONE, Tlvresult |-> eQCWWAN_ERR_GENERAL, ac_present |-> FALSE,
       autoconnect_setting |-> MM_WDS_AUTOCONNECT_SETTING_DISABLED, roam_present |-> FALSE,
       Autoconnect_roam_setting |-> MM_WDS_AUTOCONNECT_ROAM_SETTING_ALWAYS] }
    \cup
    { [st |-> eQCWWAN_ERR_NONE, Tlvresult |-> 0, ac_present |-> ap, autoconnect_setting |-> a,
       roam_present |-> rp, Autoconnect_roam_setting |-> r] :
        ap \in BOOLEAN, a \in AutoconnectSettings, rp \in BOOLEAN,
        r \in AutoconnectRoamSettings }

\* What the modem can answer to SetAutoconnect.
SetAutoconnectResponses ==
    { [st |-> a, Tlvresult |-> b] : a \in QmiResults, b \in QmiResults }

mm_wds_get_autoconnect_settings(resp) ==
    IF resp.st # eQCWWAN_ERR_NONE
      THEN [status |-> resp.st,
            autoconnect_setting |-> MM_WDS_AUTOCONNECT_SETTING_INVALID,
            autoconnect_roam_setting |-> MM_WDS_AUTOCONNECT_ROAM_SETTING_INVALID]
    ELSE IF resp.Tlvresult # eQCWWAN_ERR_NONE
      THEN [status |-> resp.Tlvresult,
            autoconnect_setting |-> MM_WDS_AUTOCONNECT_SETTING_INVALID,
            autoconnect_roam_setting |-> MM_WDS_AUTOCONNECT_ROAM_SETTING_INVALID]
    ELSE [status |-> eQCWWAN_ERR_NONE,
          autoconnect_setting |-> IF resp.ac_present THEN resp.autoconnect_setting
                                  ELSE MM_WDS_AUTOCONNECT_SETTING_INVALID,
          autoconnect_roam_setting |-> IF resp.roam_present
                                         THEN resp.Autoconnect_roam_setting
                                         ELSE MM_WDS_AUTOCONNECT_ROAM_SETTING_INVALID]

\* Variant: only the autoconnect setting is compared, not the roam setting.
AutoconnectUnchanged_ignores_roam(cur, cur_roam, autoconnect_setting, autoconnect_roam_setting) ==
    cur = autoconnect_setting

\* current_autoconnect_setting == autoconnect_setting &&
\* current_autoconnect_roam_setting == autoconnect_roam_setting
AutoconnectUnchanged(cur, cur_roam, autoconnect_setting, autoconnect_roam_setting) ==
    cur = autoconnect_setting /\ cur_roam = autoconnect_roam_setting

\* get: the answer to GetAutoconnect; set: the answer to SetAutoconnect (if
\* it is sent).  writes: the SetAutoconnect requests sent, in order.
mm_wds_set_autoconnect_settings(autoconnect_setting, autoconnect_roam_setting, get, set) ==
    LET g == mm_wds_get_autoconnect_settings(get)
        req == [acsetting |-> autoconnect_setting, acroamsetting |-> autoconnect_roam_setting]
    IN  IF g.status # eQCWWAN_ERR_NONE
          THEN [status |-> g.status, writes |-> <<>>]
        ELSE IF AutoconnectUnchanged(g.autoconnect_setting, g.autoconnect_roam_setting,
                                     autoconnect_setting, autoconnect_roam_setting)
          THEN [status |-> eQCWWAN_ERR_NONE, writes |-> <<>>]
        ELSE IF set.st # eQCWWAN_ERR_NONE
          THEN [status |-> set.st, writes |-> <<req>>]
        ELSE [status |-> set.Tlvresult, writes |-> <<req>>]

InitAutoconnect ==
    /\ SupervisorIdle
    /\ pwr = NoPowerCall
    /\ nlk = NoCall
    /\ wdsq \in { [fn |-> "set_autoconnect", called |-> FALSE, autoconnect_setting |-> a,
                    autoconnect_roam_setting |-> r, get |-> g, set |-> t,
                    status |-> 0, writes |-> <<>>] :
                    a \in AutoconnectSettings, r \in AutoconnectRoamSettings,
                    g \in GetAutoconnectResponses, t \in SetAutoconnectResponses }

\* status = mm_wds_set_autoconnect_settings(&wds, autoconnect_setting, autoconnect_roam_setting)
set_autoconnect_call ==
    /\ wdsq.fn = "set_autoconnect"
    /\ ~wdsq.called
    /\ LET r == mm_wds_set_autoconnect_settings(wdsq.autoconnect_setting,
                     wdsq.autoconnect_roam_setting, wdsq.get, wdsq.set)
       IN  wdsq' = [wdsq EXCEPT !.called = TRUE, !.status = r.status, !.writes = r.writes]
    /\ UNCHANGED <<vSup, pwr, nlk>>

NextAutoconnect == set_autoconnect_call

SpecAutoconnect == InitAutoconnect /\ [][NextAutoconnect]_vars

(***************************************************************************)
(* mm_wds_get_runtime_settings on its own: the v4 gateway and subnet mask  *)
(* TLVs and the loop that turns the mask into a prefix length.  A mask is  *)
(* the uint32_t resp.SubnetMaskV4, kept as its 32 bits, bit 1 the lowest.  *)
(***************************************************************************)
MaskBits == 32

\* The mask with the p highest bits set: prefix /p.
MaskOfPrefix(p) == [i \in 1..MaskBits |-> IF i > MaskBits - p THEN 1 ELSE 0]

LegalMasks == { MaskOfPrefix(p) : p \in 0..MaskBits }

\* resp.SubnetMaskV4 >> 1
ShiftRight(m) == [i \in 1..MaskBits |-> IF i < MaskBits THEN m[i + 1] ELSE 0]

\* What the modem can answer to SLQSGetRuntimeSettings, as far as the v4
\* gateway (presence bit 32) and subnet mask (presence bit 33) go.
RuntimeSettingsResponses ==
    { [st |-> a, Tlvresult |-> b, gw_present |-> g, mask_present |-> k, SubnetMaskV4 |-> m] :
        a \in QmiResults, b \in QmiResults, g \in BOOLEAN, k \in BOOLEAN, m \in LegalMasks }

InitPrefix ==
    /\ SupervisorIdle
    /\ pwr = NoPowerCall
    /\ nlk = NoCall
    /\ wdsq \in { [fn |-> "get_runtime_settings", at |-> "call", family |-> f, resp |-> r,
                    mask |-> r.SubnetMaskV4, prefix_length |-> 0, gateway_present |-> FALSE,
                    status |-> 0] :
                    f \in {"AF_INET", "AF_INET6"}, r \in RuntimeSettingsResponses }

\* mm_wds_get_runtime_settings up to the loop: memset(settings, 0, ...), the
\* request, the result tests, and for a v4 session with both TLVs
\* gateway_present = true and prefix_length = 32.
get_runtime_settings_call ==
    /\ wdsq.fn = "get_runtime_settings"
    /\ wdsq.at = "call"
    /\ LET r == wdsq.resp IN
         IF r.st # eQCWWAN_ERR_NONE
           THEN wdsq' = [wdsq EXCEPT !.at = "returned", !.status = r.st]
         ELSE IF r.Tlvresult # eQCWWAN_ERR_NONE
           THEN wdsq' = [wdsq EXCEPT !.at = "returned", !.status = r.Tlvresult]
         ELSE IF r.gw_present /\ r.mask_present /\ wdsq.family = "AF_INET"
           THEN wdsq' = [wdsq EXCEPT !.at = "loop", !.gateway_present = TRUE,
                                     !.prefix_length = MaskBits]
         ELSE wdsq' = [wdsq EXCEPT !.at = "returned", !.status = eQCWWAN_ERR_NONE]
    /\ UNCHANGED <<vSup, pwr, nlk>>

\* while (!(resp.SubnetMaskV4 & 0x1))
MaskLoopCondition(m) == m[1] = 0

\* One pass:  resp.SubnetMaskV4 = resp.SubnetMaskV4 >> 1; settings->prefix_length--;
\* With a mask of zero the condition stays true and prefix_length (an int)
\* is decremented without end.
prefix_loop_pass ==
    /\ wdsq.fn = "get_runtime_settings"
    /\ wdsq.at = "loop"
    /\ MaskLoopCondition(wdsq.mask)
    /\ wdsq.prefix_length > -MaxSpin
    /\ wdsq' = [wdsq EXCEPT !.mask = ShiftRight(wdsq.mask),
                            !.prefix_length = wdsq.prefix_length - 1]
    /\ UNCHANGED <<vSup, pwr, nlk>>

\* The loop condition is false: the function returns status.
prefix_loop_exit ==
    /\ wdsq.fn = "get_runtime_settings"
    /\ wdsq.at = "loop"
    /\ ~MaskLoopCondition(wdsq.mask)
    /\ wdsq' = [wdsq EXCEPT !.at = "returned", !.status = eQCWWAN_ERR_NONE]
    /\ UNCHANGED <<vSup, pwr, nlk>>

NextPrefix ==
    \/ get_runtime_settings_call
    \/ prefix_loop_pass
    \/ prefix_loop_exit

SpecPrefix == InitPrefix /\ [][NextPrefix]_vars

(***************************************************************************)
(* ensure_interface_state on its own (src/netlink.c), with the link cache  *)
(* reload that refreshes the link handles.  up: IFF_UP in the flags of the *)
(* cached link object the handle points to; kernel_up: the interface's     *)
(* state in the kernel.  rtnl_link_change sends the request built from the *)
(* handle and the change; it does not write to the handle.                 *)
(***************************************************************************)
Links == {"wwan", "wg0"}

InitLink ==
    /\ SupervisorIdle
    /\ pwr = NoPowerCall
    /\ wdsq = NoCall
    /\ nlk \in { [fn |-> "ensure_interface_state",
                   link |-> [l \in Links |-> [valid |-> TRUE, up |-> u[l], kernel_up |-> u[l]]],
                   log |-> <<>>] : u \in [Links -> BOOLEAN] }

\* alloc_ok: rtnl_link_alloc() returned an object; r: what rtnl_link_change
\* returns.  emitted: a link-change request was submitted.
ensure_interface_state(link, request_up, alloc_ok, r) ==
    LET iface_is_up == link.up IN
    IF (request_up /\ ~iface_is_up) \/ (~request_up /\ iface_is_up)
      THEN IF ~alloc_ok
             THEN [status |-> -1, emitted |-> FALSE, link |-> link]
             ELSE [status |-> r, emitted |-> TRUE,
                   link |-> IF r = 0 THEN [link EXCEPT !.kernel_up = request_up] ELSE link]
      ELSE [status |-> 0, emitted |-> FALSE, link |-> link]

\* mm_netlink_ensure_wwan_interface_state / mm_netlink_ensure_wg0_interface_state
ensure_interface_state_call ==
    /\ nlk.fn = "ensure_interface_state"
    /\ Len(nlk.log) < MaxCalls
    /\ \E l \in Links, request_up \in BOOLEAN, alloc_ok \in BOOLEAN, r \in NlResults :
         /\ nlk.link[l].valid
         /\ LET e == ensure_interface_state(nlk.link[l], request_up, alloc_ok, r) IN
              nlk' = [nlk EXCEPT !.link[l] = e.link,
                                 !.log = Append(nlk.log, [op |-> "ensure", link |-> l,
                                                          request_up |-> request_up,
                                                          emitted |-> e.emitted,
                                                          status |-> e.status])]
    /\ UNCHANGED <<vSup, pwr, wdsq>>

\* A handle resolved anew from a refilled cache: its flags are the kernel's.
Resolved(link) == [link EXCEPT !.valid = TRUE, !.up = link.kernel_up]

\* The handle was put and set to NULL, and not resolved again.
Dropped(link) == [link EXCEPT !.valid = FALSE]

\* mm_netlink_reload_link_cache: how far it gets before a step fails.
ReloadOutcomes == {"refill_v4", "get_v4", "refill_v6", "get_v6", "ifindex", "get_wg0", "done"}

mm_netlink_reload_link_cache(link, outcome) ==
    IF outcome \in {"refill_v4", "get_v4"}
      THEN [status |-> -1, link |-> [link EXCEPT !["wwan"] = Dropped(link["wwan"])]]
    ELSE IF outcome \in {"refill_v6", "get_v6", "ifindex"}
      THEN [status |-> -1, link |-> [link EXCEPT !["wwan"] = Resolved(link["wwan"])]]
    ELSE IF outcome = "get_wg0"
      THEN [status |-> -1, link |-> [link EXCEPT !["wwan"] = Resolved(link["wwan"]),
                                                 !["wg0"] = Dropped(link["wg0"])]]
    ELSE [status |-> 0, link |-> [l \in Links |-> Resolved(link[l])]]

reload_link_cache_call ==
    /\ nlk.fn = "ensure_interface_state"
    /\ Len(nlk.log) < MaxCalls
    /\ \A l \in Links : nlk.link[l].valid
    /\ \E outcome \in ReloadOutcomes :
         LET e == mm_netlink_reload_link_cache(nlk.link, outcome) IN
         nlk' = [nlk EXCEPT !.link = e.link,
                            !.log = Append(nlk.log, [op |-> "reload", status |-> e.status])]
    /\ UNCHANGED <<vSup, pwr, wdsq>>

NextLink ==
    \/ ensure_interface_state_call
    \/ reload_link_cache_call

SpecLink == InitLink /\ [][NextLink]_vars

(***************************************************************************)
(* mm_netlink_change_v4_default_gateway / _v6_ on their own.  wwan_nexthop *)
(* is the one next-hop object shared by the two preallocated default       *)
(* routes: gateway is the address it carries, routes the preallocated      *)
(* routes whose next-hop list it is in.                                    *)
(***************************************************************************)
Gateways == {"gw1", "gw2"}

Families == {"v4", "v6"}

DefaultRoute(f) == IF f = "v4" THEN "default_route4" ELSE "default_route6"

\* wwan_nexthop as mm_netlink_initialize leaves it: no gateway, in no route.
NexthopAtRest == [gateway |-> "NULL", routes |-> {}]

\* rtnl_route_nh_set_gateway(wwan_nexthop, gateway_addr);
\* rtnl_route_add_nexthop(default_route, wwan_nexthop);
GatewayAttach(nexthop, route, gateway) ==
    [gateway |-> gateway, routes |-> nexthop.routes \cup {route}]

\* Variant: the next-hop is left on the route when the submit has failed.
GatewayDetach_on_success(nexthop, route, submit_status) ==
    IF submit_status = 0 THEN [gateway |-> "NULL", routes |-> nexthop.routes \ {route}] ELSE nexthop

\* rtnl_route_nh_set_gateway(wwan_nexthop, NULL);
\* rtnl_route_remove_nexthop(default_route, wwan_nexthop);
GatewayDetach(nexthop, route, submit_status) ==
    [gateway |-> "NULL", routes |-> nexthop.routes \ {route}]

InitGateway ==
    /\ SupervisorIdle
    /\ pwr = NoPowerCall
    /\ wdsq = NoCall
    /\ nlk \in { [fn |-> "change_default_gateway", at |-> "idle", family |-> "v4",
                   wwan_nexthop |-> NexthopAtRest,
                   kernel_route |-> [f \in Families |-> k[f]],
                   calls |-> 0, status |-> 0] :
                   k \in [Families -> Gateways \cup {"none"}] }

\* The call up to the submit: the addresses are filled in and the next-hop,
\* bearing the gateway, is added to the family's default route.
change_default_gateway_attach ==
    /\ nlk.fn = "change_default_gateway"
    /\ nlk.at = "idle"
    /\ nlk.calls < MaxCalls
    /\ \E f \in Families, g \in Gateways :
         nlk' = [nlk EXCEPT !.at = "submit", !.family = f, !.calls = nlk.calls + 1,
                            !.wwan_nexthop = GatewayAttach(nlk.wwan_nexthop, DefaultRoute(f), g)]
    /\ UNCHANGED <<vSup, pwr, wdsq>>

\* status = rtnl_route_add(nl, default_route, NLM_F_CREATE | NLM_F_REPLACE),
\* then the detach and  return status.
change_default_gateway_submit ==
    /\ nlk.fn = "change_default_gateway"
    /\ nlk.at = "submit"
    /\ \E r \in NlResults :
         nlk' = [nlk EXCEPT !.at = "idle", !.status = r,
                            !.kernel_route[nlk.family] =
                                IF r = 0 THEN nlk.wwan_nexthop.gateway
                                         ELSE nlk.kernel_route[nlk.family],
                            !.wwan_nexthop =
                                GatewayDetach(nlk.wwan_nexthop, DefaultRoute(nlk.family), r)]
    /\ UNCHANGED <<vSup, pwr, wdsq>>

NextGateway ==
    \/ change_default_gateway_attach
    \/ change_default_gateway_submit

SpecGateway == InitGateway /\ [][NextGateway]_vars

(***************************************************************************)
(* mm_netlink_ensure_v4_configuration_is_applied on its own.  The address  *)
(* cache was just refilled: it holds what the kernel has on the wwan       *)
(* interface.  An address is its local address, prefix length and scope.   *)
(***************************************************************************)
\* The configuration asked for: address "A" with prefix 24.
WantedV4 == [local |-> <<"A", 0>>, prefixlen |-> 24, scope |-> "universe"]

LinkScopeV4 == [local |-> <<"ll", 0>>, prefixlen |-> 16, scope |-> "link"]

\* The i-th non-link-scope address of the prior set: the wanted one at
\* position match, else another address, with the wanted prefix length at
\* the even positions.
PriorAddr(i, match) ==
    IF i = match THEN WantedV4
    ELSE [local |-> <<"other", i>>, prefixlen |-> IF i % 2 = 0 THEN 24 ELSE 32,
          scope |-> "universe"]

\* The v4 addresses of the wwan interface in cache order: a link-scope one
\* first if with_link, then n others.
PriorCache(n, match, with_link) ==
    (IF with_link THEN <<LinkScopeV4>> ELSE <<>>) \o [i \in 1..n |-> PriorAddr(i, match)]

PriorSizes == {0, 1, 2, MAX_NETLINK_ADDRS, MAX_NETLINK_ADDRS + 1}

\* The callback of nl_cache_foreach_filter on one object of the cache: a
\* link-scope address is passed over, another is stored while there is room,
\* and counted in any case.
collect_nonlink_addrs(obj, addrs) ==
    IF obj.scope = "link" THEN addrs
    ELSE [list |-> IF addrs.allocated < MAX_NETLINK_ADDRS
                     THEN Append(addrs.list, obj) ELSE addrs.list,
          allocated |-> IF addrs.allocated < MAX_NETLINK_ADDRS
                          THEN addrs.allocated + 1 ELSE addrs.allocated,
          count |-> addrs.count + 1]

Range(f) == { f[x] : x \in DOMAIN f }

InitEnsureV4 ==
    /\ SupervisorIdle
    /\ pwr = NoPowerCall
    /\ wdsq = NoCall
    /\ \E n \in PriorSizes, match \in {0, 1, 2, MAX_NETLINK_ADDRS + 1}, with_link \in BOOLEAN,
          undeletable \in {{}, {1}, {2}}, r_add \in NlResults, r_route \in NlResults,
          g \in Gateways :
         /\ match <= n
         /\ undeletable \subseteq 1..n
         /\ nlk = [fn |-> "ensure_v4", at |-> "call",
                   address |-> WantedV4.local, prefix_length |-> WantedV4.prefixlen,
                   gateway_address |-> g,
                   cache |-> PriorCache(n, match, with_link),
                   undeletable |-> { PriorAddr(i, match) : i \in undeletable },
                   r_add |-> r_add, r_route |-> r_route,
                   addrs |-> [list |-> <<>>, allocated |-> 0, count |-> 0],
                   k |-> 1, i |-> 0, found_address |-> FALSE, status |-> 0,
                   kernel_addrs |-> Range(PriorCache(n, match, with_link)),
                   kernel_route |-> "none", wwan_nexthop |-> NexthopAtRest]

\* nl_cache_foreach_filter(addr_cache, addr_filter, collect_nonlink_addrs,
\* &addrs), one object of the cache at a time.
ensure_v4_enumerate ==
    /\ nlk.fn = "ensure_v4"
    /\ nlk.at = "call"
    /\ nlk.k <= Len(nlk.cache)
    /\ nlk' = [nlk EXCEPT !.k = nlk.k + 1,
                          !.addrs = collect_nonlink_addrs(nlk.cache[nlk.k], nlk.addrs)]
    /\ UNCHANGED <<vSup, pwr, wdsq>>

\* After the enumeration: if (addrs.allocated < addrs.count) status = -1;
\* then the loop starts with i = 0.
ensure_v4_check_overflow ==
    /\ nlk.fn = "ensure_v4"
    /\ nlk.at = "call"
    /\ nlk.k > Len(nlk.cache)
    /\ nlk' = [nlk EXCEPT !.at = "loop", !.i = 0,
                          !.status = IF nlk.addrs.allocated < nlk.addrs.count
                                       THEN -1 ELSE nlk.status]
    /\ UNCHANGED <<vSup, pwr, wdsq>>

\* rtnl_addr_get_prefixlen(a) == prefix_length && the local address is address
IsWantedAddress(a, address, prefix_length) ==
    a.prefixlen = prefix_length /\ a.local = address

\* rtnl_addr_delete(nl, a, 0): the kernel refuses for the undeletable addresses.
rtnl_addr_delete(a) == IF a \in nlk.undeletable THEN -1 ELSE 0

\* One pass of the loop over addrs.list (i counts from 0 in the code, the
\* sequence from 1): the wanted address is kept, any other is deleted and
\* status becomes the result of that delete.
ensure_v4_pass ==
    /\ nlk.fn = "ensure_v4"
    /\ nlk.at = "loop"
    /\ nlk.i < nlk.addrs.allocated
    /\ LET a == nlk.addrs.list[nlk.i + 1] IN
         IF IsWantedAddress(a, nlk.address, nlk.prefix_length)
           THEN nlk' = [nlk EXCEPT !.found_address = TRUE, !.i = nlk.i + 1]
           ELSE nlk' = [nlk EXCEPT !.status = rtnl_addr_delete(a), !.i = nlk.i + 1,
                                   !.kernel_addrs = IF rtnl_addr_delete(a) = 0
                                                      THEN nlk.kernel_addrs \ {a}
                                                      ELSE nlk.kernel_addrs]
    /\ UNCHANGED <<vSup, pwr, wdsq>>

\* mm_netlink_add_v4_address: rtnl_addr_add(nl, wwan_addr4, 0).  The kernel
\* refuses an address the interface already has; else r is the result.
mm_netlink_add_v4_address(kernel_addrs, a, r) ==
    IF a \in kernel_addrs THEN [status |-> -1, kernel_addrs |-> kernel_addrs]
    ELSE IF r # 0 THEN [status |-> r, kernel_addrs |-> kernel_addrs]
    ELSE [status |-> 0, kernel_addrs |-> kernel_addrs \cup {a}]

\* mm_netlink_change_v4_default_gateway as a whole: attach, submit with
\* result r, detach.
mm_netlink_change_v4_default_gateway(nexthop, kernel_route, gateway, r) ==
    LET attached == GatewayAttach(nexthop, DefaultRoute("v4"), gateway) IN
    [status |-> r,
     kernel_route |-> IF r = 0 THEN attached.gateway ELSE kernel_route,
     wwan_nexthop |-> GatewayDetach(attached, DefaultRoute("v4"), r)]

\* After the loop:
\*   if (!found_address) status = mm_netlink_add_v4_address(...);
\*   if (!status) status = mm_netlink_change_v4_default_gateway(...);
\*   return status;
ensure_v4_finish ==
    /\ nlk.fn = "ensure_v4"
    /\ nlk.at = "loop"
    /\ nlk.i >= nlk.addrs.allocated
    /\ LET wanted == [local |-> nlk.address, prefixlen |-> nlk.prefix_length,
                      scope |-> "universe"]
           add == IF ~nlk.found_address
                    THEN mm_netlink_add_v4_address(nlk.kernel_addrs, wanted, nlk.r_add)
                    ELSE [status |-> nlk.status, kernel_addrs |-> nlk.kernel_addrs]
           gw == IF add.status = 0
                   THEN mm_netlink_change_v4_default_gateway(nlk.wwan_nexthop,
                            nlk.kernel_route, nlk.gateway_address, nlk.r_route)
                   ELSE [status |-> add.status, kernel_route |-> nlk.kernel_route,
                         wwan_nexthop |-> nlk.wwan_nexthop]
       IN  nlk' = [nlk EXCEPT !.at = "returned", !.status = gw.status,
                              !.kernel_addrs = add.kernel_addrs,
                              !.kernel_route = gw.kernel_route,
                              !.wwan_nexthop = gw.wwan_nexthop]
    /\ UNCHANGED <<vSup, pwr, wdsq>>

NextEnsureV4 ==
    \/ ensure_v4_enumerate
    \/ ensure_v4_check_overflow
    \/ ensure_v4_pass
    \/ ensure_v4_finish

SpecEnsureV4 == InitEnsureV4 /\ [][NextEnsureV4]_vars

(***************************************************************************)
(* mm_netlink_addr_flush, one step at a time: the reload of the address    *)
(* cache, the enumeration of the v4 then the v6 addresses of the wwan      *)
(* interface into one list, the overflow test, and the loop of deletes.    *)
(***************************************************************************)

\* The v6 addresses of the wwan interface in cache order: a link-scope one
\* first if with_link, then n others.
PriorCacheV6(n, with_link) ==
    (IF with_link THEN <<[local |-> <<"fe80", 0>>, prefixlen |-> 64, scope |-> "link"]>>
     ELSE <<>>)
    \o [i \in 1..n |-> [local |-> <<"v6", i>>, prefixlen |-> 64, scope |-> "universe"]]

InitAddrFlush ==
    /\ SupervisorIdle
    /\ pwr = NoPowerCall
    /\ wdsq = NoCall
    /\ \E n4 \in PriorSizes, n6 \in {0, 1, 2}, with_link \in BOOLEAN,
          undeletable \in {{}, {1}, {2}}, r_reload \in NlResults :
         /\ undeletable \subseteq 1..n4
         /\ nlk = [fn |-> "addr_flush", at |-> "call",
                   cache |-> PriorCache(n4, 0, with_link) \o PriorCacheV6(n6, with_link),
                   undeletable |-> { PriorAddr(i, 0) : i \in undeletable },
                   r_reload |-> r_reload,
                   addrs |-> [list |-> <<>>, allocated |-> 0, count |-> 0],
                   k |-> 1, i |-> 0, status |-> 0, failed |-> {},
                   kernel_addrs |-> Range(PriorCache(n4, 0, with_link))
                                       \cup Range(PriorCacheV6(n6, with_link))]

\* if ((status = mm_netlink_reload_address_cache(mm_nl))) return status;
\* addrs.count = addrs.allocated = 0;
addr_flush_reload ==
    /\ nlk.fn = "addr_flush"
    /\ nlk.at = "call"
    /\ nlk' = [nlk EXCEPT !.status = nlk.r_reload,
                          !.at = IF nlk.r_reload # 0 THEN "returned" ELSE "enumerate"]
    /\ UNCHANGED <<vSup, pwr, wdsq>>

\* The two calls of nl_cache_foreach_filter (AF_INET, then AF_INET6) with
\* collect_nonlink_addrs and the same &addrs, one object at a time.
addr_flush_enumerate ==
    /\ nlk.fn = "addr_flush"
    /\ nlk.at = "enumerate"
    /\ nlk.k <= Len(nlk.cache)
    /\ nlk' = [nlk EXCEPT !.k = nlk.k + 1,
                          !.addrs = collect_nonlink_addrs(nlk.cache[nlk.k], nlk.addrs)]
    /\ UNCHANGED <<vSup, pwr, wdsq>>

\* if (addrs.allocated < addrs.count) status = -1; then the loop starts
\* with i = 0.
addr_flush_check_overflow ==
    /\ nlk.fn = "addr_flush"
    /\ nlk.at = "enumerate"
    /\ nlk.k > Len(nlk.cache)
    /\ nlk' = [nlk EXCEPT !.at = "loop", !.i = 0,
                          !.status = IF nlk.addrs.allocated < nlk.addrs.count
                                       THEN -1 ELSE nlk.status]
    /\ UNCHANGED <<vSup, pwr, wdsq>>

\* One pass of the loop: status = rtnl_addr_delete(nl, addrs.list[i], 0).
\* failed collects the addresses whose delete failed.
addr_flush_pass ==
    /\ nlk.fn = "addr_flush"
    /\ nlk.at = "loop"
    /\ nlk.i < nlk.addrs.allocated
    /\ LET a == nlk.addrs.list[nlk.i + 1] IN
         nlk' = [nlk EXCEPT !.status = rtnl_addr_delete(a), !.i = nlk.i + 1,
                            !.failed = IF rtnl_addr_delete(a) # 0
                                         THEN nlk.failed \cup {a} ELSE nlk.failed,
                            !.kernel_addrs = IF rtnl_addr_delete(a) = 0
                                               THEN nlk.kernel_addrs \ {a}
                                               ELSE nlk.kernel_addrs]
    /\ UNCHANGED <<vSup, pwr, wdsq>>

\* return status;
addr_flush_return ==
    /\ nlk.fn = "addr_flush"
    /\ nlk.at = "loop"
    /\ nlk.i >= nlk.addrs.allocated
    /\ nlk' = [nlk EXCEPT !.at = "returned"]
    /\ UNCHANGED <<vSup, pwr, wdsq>>

NextAddrFlush ==
    \/ addr_flush_reload
    \/ addr_flush_enumerate
    \/ addr_flush_check_overflow
    \/ addr_flush_pass
    \/ addr_flush_return

SpecAddrFlush == InitAddrFlush /\ [][NextAddrFlush]_vars

(***************************************************************************)
(* The life of struct mm_netlink: mm_netlink_initialize, one step at a     *)
(* time, then calls of mm_netlink_shutdown.  A step either acquires the    *)
(* object of the same name or is a test that acquires nothing (nl_connect, *)
(* the ifindex comparison, rtnl_addr_set_local).  held is what the call    *)
(* has acquired, in order; released is every call of a release function    *)
(* (nl_socket_free, nl_cache_free, rtnl_link_put, rtnl_addr_put,           *)
(* nl_addr_put, rtnl_route_put, rtnl_route_nh_free), in order.             *)
(***************************************************************************)
\* The steps of allocate_ipv4_addrs / allocate_ipv6_addrs for family f ("4", "6").
AllocateAddrsSteps(f) ==
    << [step |-> "default_route_addr" \o f, acquires |-> TRUE],
       [step |-> "gateway_addr" \o f, acquires |-> TRUE],
       [step |-> "nl_wwan_addr" \o f, acquires |-> TRUE],
       [step |-> "default_route" \o f, acquires |-> TRUE],
       [step |-> "wwan_addr" \o f, acquires |-> TRUE],
       [step |-> "rtnl_addr_set_local" \o f, acquires |-> FALSE] >>

\* The steps of allocate_wg0_resources.
AllocateWg0Steps ==
    << [step |-> "wg0_gateway_address", acquires |-> TRUE],
       [step |-> "wg0_self_address", acquires |-> TRUE],
       [step |-> "wg0_tgt_address", acquires |-> TRUE],
       [step |-> "wg0_tgt_route", acquires |-> TRUE],
       [step |-> "wg0_tgt_nexthop", acquires |-> TRUE] >>

\* The steps of mm_netlink_initialize, those of the three helpers included.
NetlinkInitializeSteps ==
    << [step |-> "nl", acquires |-> TRUE],
       [step |-> "nl_connect", acquires |-> FALSE],
       [step |-> "link_cache_v4", acquires |-> TRUE],
       [step |-> "link_cache_v6", acquires |-> TRUE],
       [step |-> "wwan_link_v4", acquires |-> TRUE],
       [step |-> "wwan_link_v6", acquires |-> TRUE],
       [step |-> "wg0_link", acquires |-> TRUE],
       [step |-> "ifindex", acquires |-> FALSE],
       [step |-> "addr_cache", acquires |-> TRUE],
       [step |-> "addr_filter", acquires |-> TRUE],
       [step |-> "wwan_nexthop", acquires |-> TRUE] >>
    \o AllocateAddrsSteps("4") \o AllocateAddrsSteps("6") \o AllocateWg0Steps

StepNames(steps) == { steps[i].step : i \in 1..Len(steps) }

\* What allocate_ipv4_addrs / allocate_ipv6_addrs releases before it returns
\* -1 because of step: the nested else branches fall through to the puts of
\* what was built before.  A failed rtnl_addr_set_local falls to the same
\* puts as a failed rtnl_addr_alloc: wwan_addr is not among them.
allocate_addrs_unwind(f, step) ==
    IF step = "default_route_addr" \o f THEN <<>>
    ELSE IF step = "gateway_addr" \o f THEN <<"default_route_addr" \o f>>
    ELSE IF step = "nl_wwan_addr" \o f
      THEN <<"gateway_addr" \o f, "default_route_addr" \o f>>
    ELSE IF step = "default_route" \o f
      THEN <<"nl_wwan_addr" \o f, "gateway_addr" \o f, "default_route_addr" \o f>>
    ELSE <<"default_route" \o f, "nl_wwan_addr" \o f, "gateway_addr" \o f,
           "default_route_addr" \o f>>

\* What allocate_wg0_resources releases before it returns -1 because of
\* step: the first three failures return at once, the later ones fall
\* through to the puts.
allocate_wg0_resources_unwind(step) ==
    IF step \in {"wg0_gateway_address", "wg0_self_address", "wg0_tgt_address"} THEN <<>>
    ELSE IF step = "wg0_tgt_route"
      THEN <<"wg0_tgt_address", "wg0_self_address", "wg0_gateway_address">>
    ELSE <<"wg0_tgt_route", "wg0_tgt_address", "wg0_self_address", "wg0_gateway_address">>

\* The puts of mm_netlink_initialize after a failed allocate_wg0_resources
\* and after a failed allocate_ipv6_addrs.
InitializePutsV6 ==
    <<"wwan_addr6", "default_route6", "nl_wwan_addr6", "gateway_addr6", "default_route_addr6">>

InitializePutsV4 ==
    <<"wwan_addr4", "default_route4", "nl_wwan_addr4", "gateway_addr4", "default_route_addr4">>

\* The last five releases of mm_netlink_initialize's failure path.
InitializeTail ==
    <<"wwan_link_v6", "wwan_link_v4", "link_cache_v6", "link_cache_v4", "nl">>

\* What mm_netlink_initialize has released when it returns a failure because
\* of step: the explicit lists of the early returns, then the fall-through of
\* the nested else branches.
mm_netlink_initialize_unwind(step) ==
    IF step = "nl" THEN <<>>
    ELSE IF step \in {"nl_connect", "link_cache_v4"} THEN <<"nl">>
    ELSE IF step = "link_cache_v6" THEN <<"link_cache_v4", "nl">>
    ELSE IF step = "wwan_link_v4" THEN <<"link_cache_v6", "link_cache_v4", "nl">>
    ELSE IF step = "wwan_link_v6"
      THEN <<"wwan_link_v4", "link_cache_v6", "link_cache_v4", "nl">>
    ELSE IF step = "wg0_link" THEN InitializeTail
    ELSE IF step \in {"ifindex", "addr_cache"} THEN InitializeTail
    ELSE IF step = "addr_filter" THEN <<"addr_cache">> \o InitializeTail
    ELSE IF step = "wwan_nexthop" THEN <<"addr_filter", "addr_cache">> \o InitializeTail
    ELSE IF step \in StepNames(AllocateAddrsSteps("4"))
      THEN allocate_addrs_unwind("4", step)
           \o <<"wwan_nexthop", "addr_filter", "addr_cache">> \o InitializeTail
    ELSE IF step \in StepNames(AllocateAddrsSteps("6"))
      THEN allocate_addrs_unwind("6", step) \o InitializePutsV4
           \o <<"wwan_nexthop", "addr_filter", "addr_cache">> \o InitializeTail
    ELSE allocate_wg0_resources_unwind(step) \o InitializePutsV6 \o InitializePutsV4
           \o <<"wwan_nexthop", "addr_filter", "addr_cache">> \o InitializeTail

\* The release calls of mm_netlink_shutdown, in the order of the code.
ShutdownOrder ==
    <<"wg0_tgt_nexthop", "wg0_tgt_route", "wg0_tgt_address", "wg0_self_address",
      "wg0_gateway_address">>
    \o InitializePutsV6 \o InitializePutsV4
    \o <<"wwan_nexthop", "addr_filter", "addr_cache", "wg0_link">> \o InitializeTail

InitLifecycle ==
    /\ SupervisorIdle
    /\ pwr = NoPowerCall
    /\ wdsq = NoCall
    /\ nlk = [fn |-> "lifecycle", at |-> "initialize", step |-> 1, held |-> <<>>,
              released |-> <<>>, calls |-> 0, status |-> 0]

\* One step of mm_netlink_initialize: it succeeds and the next step follows
\* (return 0 after the last), or it fails and the call returns a failure
\* status after the releases of its failure path.
initialize_step ==
    /\ nlk.fn = "lifecycle"
    /\ nlk.at = "initialize"
    /\ LET s == NetlinkInitializeSteps[nlk.step] IN
       \E ok \in BOOLEAN :
         IF ok
           THEN nlk' = [nlk EXCEPT !.held = IF s.acquires THEN Append(nlk.held, s.step)
                                                            ELSE nlk.held,
                                   !.step = nlk.step + 1,
                                   !.at = IF nlk.step = Len(NetlinkInitializeSteps)
                                            THEN "ready" ELSE "initialize"]
           ELSE nlk' = [nlk EXCEPT !.at = "failed", !.status = -1,
                                   !.released = mm_netlink_initialize_unwind(s.step)]
    /\ UNCHANGED <<vSup, pwr, wdsq>>

\* mm_netlink_shutdown(mm_nl) is called on the initialized handle, or again
\* on the handle a previous call has been through.
shutdown_call ==
    /\ nlk.fn = "lifecycle"
    /\ nlk.at \in {"ready", "shut"}
    /\ nlk.calls < MaxCalls
    /\ nlk' = [nlk EXCEPT !.at = "shutdown", !.step = 1, !.calls = nlk.calls + 1]
    /\ UNCHANGED <<vSup, pwr, wdsq>>

Released(log) == { log[i] : i \in 1..Len(log) }

\* One release call of mm_netlink_shutdown.  No pointer of the handle is
\* cleared, so a later call hands the same pointer to the release function
\* again: the object is then already gone, the behaviour is undefined, and
\* the process either goes on or is aborted.
shutdown_release ==
    /\ nlk.fn = "lifecycle"
    /\ nlk.at = "shutdown"
    /\ LET obj == ShutdownOrder[nlk.step]
           next == IF nlk.step = Len(ShutdownOrder) THEN "shut" ELSE "shutdown"
       IN  \E outcome \in IF obj \in Released(nlk.released)
                            THEN {"shutdown", "crashed"} ELSE {"shutdown"} :
             nlk' = [nlk EXCEPT !.released = Append(nlk.released, obj),
                                !.step = nlk.step + 1,
                                !.at = IF outcome = "crashed" THEN "crashed" ELSE next]
    /\ UNCHANGED <<vSup, pwr, wdsq>>

NextLifecycle ==
    \/ initialize_step
    \/ shutdown_call
    \/ shutdown_release

SpecLifecycle == InitLifecycle /\ [][NextLifecycle]_vars

(***************************************************************************)
(* mm_start_session on its own, with the failure-reason out-parameters of  *)
(* mm_wds_start_data_session and what mm_start_session logs of them.       *)
(***************************************************************************)
\* Whether the StartDataSession response carries the failure reason TLV
\* (presence bit 16) and the verbose failure reason TLV (presence bit 17).
StartReasonTlvs == [reason : BOOLEAN, verbose : BOOLEAN]

\* *reason_present and *verbose_reason_present when mm_wds_start_data_session
\* returns: both are cleared before the request and set from the presence
\* bits only after the tests of the transport status, of resp.Tlvresult and
\* of the session id TLV have let the call through.
StartFailureReasons(resp, tlvs) ==
    IF resp.st # eQCWWAN_ERR_NONE
      THEN [reason_present |-> FALSE, verbose_reason_present |-> FALSE]
    ELSE IF resp.Tlvresult # eQCWWAN_ERR_NONE
      THEN [reason_present |-> FALSE, verbose_reason_present |-> FALSE]
    ELSE IF ~resp.sid_present
      THEN [reason_present |-> FALSE, verbose_reason_present |-> FALSE]
    ELSE [reason_present |-> tlvs.reason, verbose_reason_present |-> tlvs.verbose]

\* The fields of the "Failed to start a data session" line of
\* mm_start_session, none when no such line is logged.
StartSessionLog(start_status, flags) ==
    IF start_status = eQCWWAN_ERR_NONE THEN {}
    ELSE IF flags.verbose_reason_present
      THEN IF flags.reason_present
             THEN {"VerboseFailureReasonType", "VerboseFailureReason", "FailureReason"}
             ELSE {"VerboseFailureReasonType", "VerboseFailureReason"}
    ELSE IF flags.reason_present THEN {"FailureReason"}
    ELSE {}

InitStart ==
    /\ SupervisorIdle
    /\ pwr = NoPowerCall
    /\ nlk = NoCall
    /\ wdsq \in { [fn |-> "start_session", at |-> "call", resp |-> r, tlvs |-> t,
                    status |-> 0, session_id |-> 0,
                    reason_present |-> FALSE, verbose_reason_present |-> FALSE,
                    logged |-> {}] :
                    r \in StartResponses, t \in StartReasonTlvs }

\* if ((status = mm_wds_set_ip_family_preference(&session->wds, preference)))
\*     return status;
start_session_set_preference ==
    /\ wdsq.fn = "start_session"
    /\ wdsq.at = "call"
    /\ wdsq' = IF wdsq.resp.pref # eQCWWAN_ERR_NONE
                 THEN [wdsq EXCEPT !.at = "returned", !.status = wdsq.resp.pref]
                 ELSE [wdsq EXCEPT !.at = "start"]
    /\ UNCHANGED <<vSup, pwr, nlk>>

\* status = mm_wds_start_data_session(...), the log of the failure reasons
\* when it is nonzero, and the return.
start_session_start ==
    /\ wdsq.fn = "start_session"
    /\ wdsq.at = "start"
    /\ LET r == mm_wds_start_data_session(wdsq.resp)
           flags == StartFailureReasons(wdsq.resp, wdsq.tlvs)
       IN  wdsq' = [wdsq EXCEPT !.at = "returned", !.status = r.status,
                                !.session_id = r.session_id,
                                !.reason_present = flags.reason_present,
                                !.verbose_reason_present = flags.verbose_reason_present,
                                !.logged = StartSessionLog(r.status, flags)]
    /\ UNCHANGED <<vSup, pwr, nlk>>

NextStart ==
    \/ start_session_set_preference
    \/ start_session_start

SpecStart == InitStart /\ [][NextStart]_vars

(***************************************************************************)
(* The indication callback on the WDS handle that                          *)
(* mm_configure_autoconnect_and_roaming attaches with a NULL context,      *)
(* against every indication, while that handle is attached.  A read        *)
(* through the NULL session is undefined: the process is stopped by the    *)
(* fault or goes on with whatever was read.                                *)
(***************************************************************************)
InitAcInd ==
    /\ pc = "A_ac_set"
    /\ exit_requested = FALSE
    /\ status = 0
    /\ status6 = 0
    /\ status4 = 0
    /\ mode = MM_DMS_OPERATION_MODE_INVALID
    /\ dms = ZeroDms
    /\ dmsq = NoQuery
    /\ ac_wds = TRUE
    /\ s4 = ZeroSession
    /\ s6 = ZeroSession
    /\ iter = 0
    /\ trace = <<"wg0_down", "ac_attach">>
    /\ fails = {}
    /\ attachOK = [h \in Handles |-> IF h = "ac" THEN 1 ELSE 0]
    /\ detachTry = [h \in Handles |-> 0]
    /\ lastInd = NoInd
    /\ peerEnd4 = FALSE
    /\ lateTicks = 0
    /\ checked = 0
    /\ mpc = "initialize"
    /\ main_status = EXIT_FAILURE
    /\ pwr = NoPowerCall
    /\ wdsq = NoCall
    /\ nlk = NoCall

\* wds_indication_callback(qmi_packet, qmi_packet_size, NULL)
ac_indication ==
    /\ ac_wds
    /\ lastInd.ctx \in {"none", "ac"}
    /\ lastInd.ctx = "ac" => lastInd.outcome = "returned"
    /\ \E ind \in AllIndications :
         LET reads == CallbackReads(FALSE, ind) IN
         \E outcome \in IF reads # {} THEN {"returned", "fault"} ELSE {"returned"} :
            lastInd' = [ctx |-> "ac", ind |-> ind, session_id |-> 0, before |-> FALSE,
                        wrote |-> RequestsTeardown(FALSE, 0, ind),
                        reads |-> reads, writes |-> CallbackWrites(FALSE, 0, ind),
                        outcome |-> outcome]
    /\ UNCHANGED <<vOut, checked, pc, exit_requested, status, vLocals, vDms, ac_wds, vSess, iter,
                   trace, fails, vCnt, peerEnd4, lateTicks>>

NextAcInd == ac_indication

SpecAcInd == InitAcInd /\ [][NextAcInd]_vars

(***************************************************************************)
(* Properties                                                              *)
(***************************************************************************)
PhaseBOrder ==
    <<"stop_chrony", "stop_unbound", "wwan_up", "addr_flush", "dms_attach", "set_online",
      "wds6_up", "wds4_up", "start_unbound", "wg_setconf", "wg0_up", "wg0_routes",
      "start_chrony", "monitor", "wds4_stop", "wds6_stop", "dms_detach", "wwan_down",
      "wg0_down", "stop_chrony", "stop_unbound">>

Listed == { PhaseBOrder[i] : i \in 1..Len(PhaseBOrder) }

\* Everything the supervisor calls from the return of the monitor to the
\* back-off sleep.
TeardownOrder ==
    <<"wds4_stop", "wds4_detach", "wds6_stop", "wds6_detach", "dms_detach",
      "reload_link_cache", "wwan_down", "wg0_down", "stop_chrony", "stop_unbound">>

IsPrefix(a, b) == Len(a) <= Len(b) /\ SubSeq(b, 1, Len(a)) = a

EndsWith(t, e) == Len(t) >= Len(e) /\ SubSeq(t, Len(t) - Len(e) + 1, Len(t)) = e

IterationOver == pc \in {"B_sleep_test", "B_sleep", "B_while", "returned"}

\* C1: in a Phase B iteration in which no collaborator call fails, the
\* listed collaborator operations are called in the fixed order (at every
\* moment the calls made so far are a prefix of it), and once the iteration
\* is over, with the monitor entered and left, they are exactly that order.
C1_FixedOrder ==
    (iter >= 1 /\ fails = {}) =>
        LET p == Project(trace, Listed) IN
        /\ IsPrefix(p, PhaseBOrder)
        /\ (IterationOver /\ Occurs(trace, "monitor")) => p = PhaseBOrder

C1_Witness == pc = "B_sleep_test" /\ fails = {} /\ Occurs(trace, "monitor")

\* C2: when initialize() has returned, every service handle that was
\* attached with success (the autoconnect WDS handle, the two DMS handles, the
\* v6 and v4 WDS handles) has had exactly as many detach attempts as attaches.
C2_AttachDetachBalance ==
    pc = "returned" => \A h \in Handles : detachTry[h] = attachOK[h]

\* The indication the callback processed last was a packet-service-status
\* indication that unpacked, without error result, with its status TLV.
LastIndParsed ==
    /\ lastInd.ctx # "none"
    /\ lastInd.ind.msgid = "PKT_SRVC_STATUS"
    /\ lastInd.ind.unpack
    /\ lastInd.ind.Tlvresult = 0
    /\ lastInd.ind.status_present

\* The decoded session-end reason says the host ended the session:
\* session_end_reason == 2, or verbose type 3 with verbose reason 2000.
LastIndHostEnded ==
    \/ lastInd.ind.reason_present /\ lastInd.ind.sessionEndReason = 2
    \/ /\ lastInd.ind.verbose_present
       /\ lastInd.ind.verboseSessnEndReasonType = 3
       /\ lastInd.ind.verboseSessnEndReason = 2000

LastIndSession == IF lastInd.ctx = "v4" THEN s4 ELSE s6

C4_PeerTeardown ==
    /\ [](( peerEnd4 /\ pc = "B_while" /\ ~exit_requested) =>
            After(trace, "monitor") = TeardownOrder \o <<"sleep10">>)
    /\ ((peerEnd4 /\ iter < MaxIter) ~> (exit_requested \/ fails # {} \/ pc = "B_reload"))

C4_Witness ==
    /\ peerEnd4
    /\ pc = "B_while"
    /\ ~exit_requested
    /\ EndsWith(trace, <<"sleep10">>)

\* The first GetPower of the iteration reported LOW_POWER under hardware control.
HwLocked ==
    /\ dmsq.asked
    /\ dmsq.current_mode = MM_DMS_OPERATION_MODE_LOW_POWER
    /\ dmsq.hardware_controlled_mode

FinalStopFailed == fails \cap {"B_stop_chrony2", "B_stop_unbound2"} # {}

\* C6: once the stop of chrony or of unbound has failed in step 8,
\* exit_requested is true and status nonzero; the other stop is attempted all
\* the same; no 10-second sleep and no new iteration follow; and initialize()
\* returns (with that nonzero status).
C6_StopFailureEndsLoop ==
    /\ [](FinalStopFailed =>
            /\ exit_requested
            /\ status # 0
            /\ ~Occurs(trace, "sleep10")
            /\ pc \in {"B_stop_unbound2", "B_sleep_test", "B_while", "returned"}
            /\ pc # "B_stop_unbound2" => EndsWith(trace, <<"stop_chrony", "stop_unbound">>))
    /\ [][FinalStopFailed => (iter' = iter /\ pc' \notin {"B_sleep", "B_reload"})]_vars
    /\ (FinalStopFailed ~> (pc = "returned" /\ status # 0))

C6_Witness == "B_stop_chrony2" \in fails /\ pc = "returned" /\ status # 0

\* C7 as claimed: whenever Phase C was run, then by the time the iteration is
\* over or initialize() has returned, the DMS detach, wwan down, tunnel down,
\* stop(chrony) and stop(unbound) have all been attempted after it.
C7_CleanupAlwaysRuns ==
    ((pc \in {"B_while", "returned"}) /\ Occurs(trace, "wds6_attach")) =>
        LET t == After(trace, "wds6_attach") IN
        /\ Occurs(t, "dms_detach")
        /\ Occurs(t, "wwan_down")
        /\ Occurs(t, "wg0_down")
        /\ Occurs(t, "stop_chrony")
        /\ Occurs(t, "stop_unbound")

\* C8: the monitor is left only when one of exit_requested,
\* v4.teardown_requested, v6.teardown_requested is true; while all three are
\* false a completed test of the loop condition leads to the next sleep; and
\* once one of them is true at most one further sleep is begun.
C8_MonitorLoop ==
    /\ [](lateTicks <= 1)
    /\ [][(pc \in MonitorPcs /\ pc' \notin MonitorPcs) => AnyFlag]_vars
    /\ [][(pc = "D_test_v6" /\ pc' # pc /\ ~AnyFlag) => pc' = "D_sleep"]_vars

C8_Witness == pc = "C4_stop" /\ lateTicks = 1 /\ EndsWith(trace, <<"monitor">>)

C10_Backoff ==
    /\ [][(pc = "B_while" /\ pc' = "B_reload" /\ iter >= 1) =>
            EndsWith(trace, <<"sleep10">>)]_vars
    /\ [][(pc = "B_sleep_test" /\ pc' \notin {"B_sleep_test", "B_sleep"}) =>
            exit_requested]_vars

C10_Witness == iter = 2 /\ pc = "B_reload"

\* The calls of the supervisor into netlink, the service bus and the wg
\* subprocess, by the pc at which they are made.
HostOpPcs ==
    {"A_wg0_down", "B_reload", "B_stop_chrony", "B_stop_unbound", "B_wwan_up", "B_flush",
     "C6_apply", "C4_apply", "C4_unbound", "C4_setconf", "C4_wg0_up", "C4_routes",
     "C4_chrony", "B_reload2", "B_wwan_down", "B_wg0_down", "B_stop_chrony2",
     "B_stop_unbound2"}

\* The tunnel path: wg setconf, tunnel link up, tunnel routes.
TunnelPcs == {"C4_setconf", "C4_wg0_up", "C4_routes"}

\* The services started after the v4 session is up.
ServicePcs == {"C4_unbound", "C4_chrony"}

\* The call made at each of these.
BringUpOp ==
    [p \in TunnelPcs \cup ServicePcs |->
        CASE p = "C4_unbound" -> "start_unbound"
          [] p = "C4_setconf" -> "wg_setconf"
          [] p = "C4_wg0_up" -> "wg0_up"
          [] p = "C4_routes" -> "wg0_routes"
          [] p = "C4_chrony" -> "start_chrony"]

\* The modem is not ONLINE after mm_dms_set_power_sync: the mode test failed.
ModeRefused == "B_set_power" \in fails /\ status = -1

SessionTeardown == <<"wds4_stop", "wds4_detach", "wds6_stop", "wds6_detach">>

\* C12: after the v4 session is up, a failed wg setconf, tunnel link up or
\* tunnel routes leaves exit_requested as it was, a failed start of unbound or
\* of chrony sets it; in each case the next call is the stop of the v4
\* session, the monitor is not entered in that iteration, and the main thread
\* gets to the end of Phase C having stopped and detached v4, then v6.
C12_BringUpFailures ==
    /\ [][(pc \in TunnelPcs /\ pc \in fails') =>
            (exit_requested' = exit_requested /\ pc' = "C4_stop")]_vars
    /\ [][(pc \in ServicePcs /\ pc \in fails') => (exit_requested' /\ pc' = "C4_stop")]_vars
    /\ []((fails \cap (TunnelPcs \cup ServicePcs) # {}) =>
            /\ ~Occurs(trace, "monitor")
            /\ pc \notin {"C4_stop", "C4_detach", "C6_stop", "C6_detach"} =>
                 \A p \in fails \cap (TunnelPcs \cup ServicePcs) :
                     IsPrefix(SessionTeardown, After(trace, BringUpOp[p])))
    /\ ((fails \cap (TunnelPcs \cup ServicePcs) # {}) ~>
            (pc \notin {"C4_stop", "C4_detach", "C6_stop", "C6_detach"}))

C12_Witness ==
    /\ "C4_routes" \in fails
    /\ pc = "B_dms_shutdown"
    /\ ~exit_requested
    /\ EndsWith(trace, <<"wg0_routes">> \o SessionTeardown)

\* The start of a data session is the only call of the iteration that failed.
OnlyStartFailed == fails \in {{"C6_start"}, {"C4_start"}}

\* What Phase B calls from the return of run_up_ipv6 to the loop test when it
\* retries.
PhaseBCleanup ==
    <<"wds6_detach", "dms_detach", "reload_link_cache", "wwan_down", "wg0_down",
      "stop_chrony", "stop_unbound", "sleep10">>

C14_NoEffectStop ==
    /\ [][(pc = "C4_stop" /\ pc' # pc) =>
            IF checked' \in {eQCWWAN_ERR_NONE, eQCWWAN_ERR_QMI_NO_EFFECT}
              THEN exit_requested' = exit_requested /\ status4' = status4 /\ pc \notin fails'
              ELSE exit_requested' /\ status4' = checked' /\ pc \in fails']_vars
    /\ [][(pc = "C6_stop" /\ pc' # pc) =>
            IF checked' \in {eQCWWAN_ERR_NONE, eQCWWAN_ERR_QMI_NO_EFFECT}
              THEN exit_requested' = exit_requested /\ status6' = status6 /\ pc \notin fails'
              ELSE exit_requested' /\ status6' = checked' /\ pc \in fails']_vars

C14_Witness ==
    /\ pc = "C4_detach"
    /\ checked = eQCWWAN_ERR_QMI_NO_EFFECT
    /\ EndsWith(trace, <<"monitor", "wds4_stop">>)
    /\ ~exit_requested
    /\ status4 = 0

Undetached == { h \in Handles : attachOK[h] > detachTry[h] }

\* main() has created the QMUX transport and the CtlService and has not yet
\* shut them down.
TransportUp == mpc \in {"M_nl_init", "M_bus_open", "initialize", "M_wwan_shutdown"}

\* C16: a DMS or WDS service is attached only while the control transport
\* exists, and once main() has shut down the CtlService and the QMUX
\* transport (it has run to its end) no service that was attached is left
\* without its detach.
C16_TransportOutlivesServices ==
    /\ (\E h \in Handles : attachOK[h] > 0) => (TransportUp \/ mpc = "exited")
    /\ (mpc = "exited") => (Undetached = {})

\* main() has returned after a call of initialize().
MainReturned == mpc = "exited" /\ pc = "returned"

\* Every teardown call of the last iteration succeeded (the session stops and
\* detaches, the DMS detach and the Phase B cleanup), whatever failed before.
TeardownPcs ==
    {"C4_stop", "C4_detach", "C6_stop", "C6_detach", "B_dms_shutdown", "B_reload2",
     "B_wwan_down", "B_wg0_down", "B_stop_chrony2", "B_stop_unbound2"}

\* The calls whose failure sets exit_requested or breaks the loop: any failed
\* call but the recoverable ones (session start, runtime settings query,
\* tunnel set-up).
RecoverablePcs == {"C6_start", "C4_start", "C6_settings", "C4_settings"} \cup TunnelPcs

InterruptedCleanly ==
    /\ MainReturned
    /\ exit_requested
    /\ fails \cap TeardownPcs = {}
    /\ fails \subseteq RecoverablePcs
    /\ EndsWith(trace, <<"stop_chrony", "stop_unbound">>)

UnrecoverableFault == MainReturned /\ fails \ RecoverablePcs # {}

\* C17: main() returns EXIT_SUCCESS when the daemon was ended by the
\* interrupt and every teardown call succeeded, and EXIT_FAILURE when the
\* outer loop ended on an unrecoverable fault.
C17_ExitCode ==
    /\ InterruptedCleanly => main_status = EXIT_SUCCESS
    /\ UnrecoverableFault => main_status = EXIT_FAILURE


\* C18: for every indication the callback has processed for a session while
\* the main thread was in the call at pc, the only field of that session both
\* threads touch is teardown_requested, which the callback writes and the main
\* thread does not write; the callback reads or writes no field that the main
\* thread writes in that call.
C18_OnlyTeardownFlagShared ==
    lastInd.ctx # "none" =>
        LET cb == lastInd.reads \cup lastInd.writes
            mt == MainReads(lastInd.ctx, pc) \cup MainWrites(lastInd.ctx, pc)
        IN  /\ cb \cap mt \subseteq {"teardown_requested"}
            /\ "teardown_requested" \notin MainWrites(lastInd.ctx, pc)
            /\ cb \cap MainWrites(lastInd.ctx, pc) = {}

\* What the two GetPower calls of the power call under test returned.
FirstRead == mm_dms_get_power_sync(pwr.get1)

ReRead == mm_dms_get_power_sync(pwr.get2)

SetAccepted == pwr.set.st = eQCWWAN_ERR_NONE /\ pwr.set.Tlvresult = eQCWWAN_ERR_NONE

\* C19: when the initial GetPower of mm_dms_set_power_sync(requested)
\* succeeds and reports the requested mode or the hardware-controlled lock,
\* no SetPower is issued and the call returns success with resulting_mode
\* equal to the mode that GetPower reported.
C19_NoWriteWhenFutile ==
    (/\ pwr.called
     /\ FirstRead.status = eQCWWAN_ERR_NONE
     /\ (FirstRead.mode = pwr.requested \/ FirstRead.hardware_controlled_mode))
    => (/\ ~dmsq.issued
        /\ status = eQCWWAN_ERR_NONE
        /\ mode = FirstRead.mode)

C19_Witness ==
    /\ pwr.called
    /\ FirstRead.status = eQCWWAN_ERR_NONE
    /\ FirstRead.hardware_controlled_mode
    /\ FirstRead.mode # pwr.requested
    /\ mode = MM_DMS_OPERATION_MODE_LOW_POWER
    /\ ~dmsq.issued

\* C20: when mm_dms_set_power_sync has issued SetPower and the modem has
\* accepted it, GetPower is read again: if that read succeeds its mode is the
\* resulting_mode, the result is eQCWWAN_ERR_GENERAL exactly when that mode
\* differs from the requested one and success exactly when it equals it; if
\* that read fails its error is the result and resulting_mode stays INVALID.
C20_ReadBack ==
    (pwr.called /\ dmsq.issued /\ SetAccepted) =>
        IF ReRead.status = eQCWWAN_ERR_NONE
          THEN /\ mode = ReRead.mode
               /\ (status = eQCWWAN_ERR_GENERAL) <=> (ReRead.mode # pwr.requested)
               /\ (status = eQCWWAN_ERR_NONE) <=> (ReRead.mode = pwr.requested)
          ELSE /\ status = ReRead.status
               /\ mode = MM_DMS_OPERATION_MODE_INVALID

C20_Witness ==
    /\ pwr.called
    /\ dmsq.issued
    /\ SetAccepted
    /\ ReRead.status = eQCWWAN_ERR_NONE
    /\ ReRead.mode # pwr.requested
    /\ status = eQCWWAN_ERR_GENERAL
    /\ mode = ReRead.mode

\* What GetAutoconnect of the setter call under test returned.
AutoconnectRead == mm_wds_get_autoconnect_settings(wdsq.get)

AutoconnectMatches ==
    /\ AutoconnectRead.autoconnect_setting = wdsq.autoconnect_setting
    /\ AutoconnectRead.autoconnect_roam_setting = wdsq.autoconnect_roam_setting

\* C21: when the read of mm_wds_set_autoconnect_settings succeeds, the call
\* sends no SetAutoconnect request if the autoconnect and roam values read
\* both equal the requested ones (and returns success), and sends exactly one
\* request, carrying the requested values, if at least one differs.
C21_WriteOnlyOnChange ==
    (wdsq.fn = "set_autoconnect" /\ wdsq.called /\ AutoconnectRead.status = eQCWWAN_ERR_NONE) =>
        IF AutoconnectMatches
          THEN wdsq.writes = <<>> /\ wdsq.status = eQCWWAN_ERR_NONE
          ELSE wdsq.writes = <<[acsetting |-> wdsq.autoconnect_setting,
                                acroamsetting |-> wdsq.autoconnect_roam_setting]>>

C21_Witness ==
    /\ wdsq.fn = "set_autoconnect"
    /\ wdsq.called
    /\ AutoconnectRead.status = eQCWWAN_ERR_NONE
    /\ AutoconnectRead.autoconnect_setting = wdsq.autoconnect_setting
    /\ AutoconnectRead.autoconnect_roam_setting # wdsq.autoconnect_roam_setting
    /\ Len(wdsq.writes) = 1

\* The number of bits set in a mask.
RECURSIVE BitSum(_, _)
BitSum(m, n) == IF n = 0 THEN 0 ELSE m[n] + BitSum(m, n - 1)

Popcount(m) == BitSum(m, MaskBits)

\* The runtime-settings call under test is on a v4 session and the modem
\* answered with the gateway and subnet mask TLVs.
V4MaskDerived ==
    /\ wdsq.fn = "get_runtime_settings"
    /\ wdsq.at \in {"loop", "returned"}
    /\ wdsq.gateway_present

\* C22: for each of the 33 masks with contiguous high bits,
\* mm_wds_get_runtime_settings on a v4 session derives prefix_length =
\* popcount(mask): the count never goes below popcount(mask) on the way and
\* equals it when the function returns.
C22_PrefixIsPopcount ==
    V4MaskDerived =>
        /\ wdsq.prefix_length >= Popcount(wdsq.resp.SubnetMaskV4)
        /\ (wdsq.at = "returned") =>
               (wdsq.prefix_length = Popcount(wdsq.resp.SubnetMaskV4))

\* Entries i and i+1 of the log are two calls of ensure_interface_state in
\* succession on the same link handle with the same requested state.
SameEnsureTwice(i) ==
    /\ nlk.log[i].op = "ensure"
    /\ nlk.log[i + 1].op = "ensure"
    /\ nlk.log[i].link = nlk.log[i + 1].link
    /\ nlk.log[i].request_up = nlk.log[i + 1].request_up

\* C23: of two calls of ensure_interface_state made in succession on the same
\* link handle with the same requested state, at most one submits a
\* link-change request: once the first has submitted one, the second is a
\* no-op.
C23_SecondCallNoOp ==
    nlk.fn = "ensure_interface_state" =>
        \A i \in 1..(Len(nlk.log) - 1) :
            SameEnsureTwice(i) => ~(nlk.log[i].emitted /\ nlk.log[i + 1].emitted)

\* C30: whenever no call of mm_netlink_change_v4_default_gateway or
\* mm_netlink_change_v6_default_gateway is under way (before the first and
\* after every one, whether its submit succeeded or failed) the shared
\* next-hop carries no gateway and is in neither default route; during a
\* call it is in the route of that call's family only.
C30_NexthopAtRest ==
    nlk.fn = "change_default_gateway" =>
        /\ (nlk.at = "idle") => (nlk.wwan_nexthop = NexthopAtRest)
        /\ (nlk.at = "submit") => (nlk.wwan_nexthop.routes = {DefaultRoute(nlk.family)})

C30_Witness ==
    /\ nlk.fn = "change_default_gateway"
    /\ nlk.at = "idle"
    /\ nlk.calls = 2
    /\ nlk.status = -1
    /\ nlk.family = "v6"
    /\ nlk.wwan_nexthop = NexthopAtRest

\* The non-link-scope v4 addresses the kernel has on the wwan interface.
NonLinkAddrs == { a \in nlk.kernel_addrs : a.scope # "link" }

\* C24: when mm_netlink_ensure_v4_configuration_is_applied(A, P, G) has
\* returned success, whatever the prior addresses were, the non-link-scope v4
\* addresses of the wwan interface are exactly {A/P} and the v4 default route
\* points to G.
C24_ExactlyWanted ==
    (nlk.fn = "ensure_v4" /\ nlk.at = "returned" /\ nlk.status = 0) =>
        /\ NonLinkAddrs = {[local |-> nlk.address, prefixlen |-> nlk.prefix_length,
                            scope |-> "universe"]}
        /\ nlk.kernel_route = nlk.gateway_address

\* C29: when mm_netlink_ensure_v4_configuration_is_applied has enumerated
\* more than MAX_NETLINK_ADDRS (126) non-link-scope addresses, it returns a
\* failure status.
C29_OverflowIsFatal ==
    (nlk.fn = "ensure_v4" /\ nlk.at = "returned" /\ nlk.addrs.count > MAX_NETLINK_ADDRS) =>
        nlk.status # 0

\* C25: once the monitor has returned, the supervisor stops the v4 session
\* and the v6 session before it detaches either WDS handle: no detach has
\* been called while a stop is still to come.
C25_StopsBeforeDetaches ==
    LET t == After(trace, "monitor") IN
    Occurs(trace, "monitor") =>
        \A i \in 1..Len(t), j \in 1..Len(t) :
            (t[i] \in {"wds4_detach", "wds6_detach"} /\ t[j] \in {"wds4_stop", "wds6_stop"})
                => j < i

\* C26: whenever initialize() has returned, the cached model_id has been
\* freed.
C26_ModelIdFreedOnReturn == (pc = "returned") => ~dms.model_id

Reverse(s) == [i \in 1..Len(s) |-> s[Len(s) + 1 - i]]

\* C27: when mm_netlink_initialize has failed at some step, the objects it
\* had acquired up to that step have each been released once, in the reverse
\* of the order of acquisition.
C27_UnwindOnFailure ==
    (nlk.fn = "lifecycle" /\ nlk.at = "failed") => nlk.released = Reverse(nlk.held)

\* C28: when calls of mm_netlink_shutdown on a successfully initialized
\* handle are over, each object of the handle has been released exactly once,
\* in the reverse of the order of acquisition: a second call has released
\* nothing again.
C28_ShutdownIdempotent ==
    (nlk.fn = "lifecycle" /\ nlk.at \in {"shut", "crashed"}) =>
        nlk.released = Reverse(nlk.held)

DmsHandles == {"swi", "dms"}

\* mm_dms_initialize was the last collaborator call of initialize().
DmsInitializeJustReturned == trace # <<>> /\ trace[Len(trace)] = "dms_attach"

\* C31: when mm_dms_initialize has returned an error, each of the two DMS
\* services that did attach has had its detach attempted, and neither is
\* attached unless that detach failed; when it has returned success, both
\* are attached.
C31_DmsAttachAllOrNothing ==
    DmsInitializeJustReturned =>
        IF status # eQCWWAN_ERR_NONE
          THEN \A h \in DmsHandles : detachTry[h] = attachOK[h]
          ELSE /\ dms.swi /\ dms.dms
               /\ \A h \in DmsHandles : attachOK[h] = detachTry[h] + 1

\* The main DMS attach or the model query failed after the vendor service
\* had attached, and the unwind detached what was attached.
C31_Witness ==
    /\ DmsInitializeJustReturned
    /\ status # eQCWWAN_ERR_NONE
    /\ attachOK["swi"] > 0
    /\ ~dms.swi /\ ~dms.dms

\* The modem answered StartDataSession and refused it with an error code.
StartRefused ==
    /\ wdsq.fn = "start_session"
    /\ wdsq.at = "returned"
    /\ wdsq.resp.pref = eQCWWAN_ERR_NONE
    /\ wdsq.resp.st = eQCWWAN_ERR_NONE
    /\ wdsq.resp.Tlvresult # eQCWWAN_ERR_NONE

\* C32: when the modem has refused StartDataSession with an error code, a
\* failure reason in the response makes reason_present true and is logged by
\* mm_start_session, and so for a verbose failure reason.
C32_FailureReasonsSurfaced ==
    StartRefused =>
        /\ wdsq.tlvs.reason => (wdsq.reason_present /\ "FailureReason" \in wdsq.logged)
        /\ wdsq.tlvs.verbose =>
              (wdsq.verbose_reason_present /\ "VerboseFailureReason" \in wdsq.logged)

\* What a step within the lifetime of a session may do to its flag: leave it,
\* or take it from false to true in a step that is not one of the main
\* thread (pc and the trace of its calls stay as they are).
FlagStep(before, after) ==
    /\ before.teardown_requested => after.teardown_requested
    /\ (after.teardown_requested # before.teardown_requested) =>
           (pc' = pc /\ trace' = trace /\ exit_requested' = exit_requested)

\* C33: from the zeroing of a session in run_up_ipv4 / run_up_ipv6 until its
\* WDS handle is detached, teardown_requested starts false, goes only from
\* false to true, only in a step of the indication callback, and is never
\* cleared.
C33_TeardownFlagMonotonic ==
    [][ /\ (pc = "C4_attach" /\ pc' # pc) => ~s4'.teardown_requested
        /\ (pc = "C6_attach" /\ pc' # pc) => ~s6'.teardown_requested
        /\ (s4.attached /\ s4'.attached /\ pc # "C4_attach") => FlagStep(s4, s4')
        /\ (s6.attached /\ s6'.attached /\ pc # "C6_attach") => FlagStep(s6, s6') ]_vars

\* The flag the callback set during the monitor is still set when the v4
\* session is about to be stopped.
C33_Witness ==
    /\ pc = "C4_stop"
    /\ s4.attached
    /\ s4.teardown_requested
    /\ Occurs(trace, "monitor")

\* C34: for every indication that reaches the callback with a NULL session
\* context, the callback reads and writes no field through that context.
C34_NoNullDereference ==
    lastInd.ctx = "ac" => (lastInd.reads = {} /\ lastInd.writes = {})

\* C35: the prefix-length loop of mm_wds_get_runtime_settings terminates for
\* every subnet mask with a prefix length in 0..32: on the way and at the
\* return the count is never outside 0..32 (a loop that has counted below 0
\* has run more than 32 passes and does not end).
C35_PrefixLoopInRange ==
    V4MaskDerived => wdsq.prefix_length \in 0..MaskBits

\* The main thread is inside run_up_ipv6 (run_up_ipv4 and the monitor
\* included).
SessionPcs ==
    {"C6_attach", "C6_start", "C6_settings", "C6_apply", "C6_stop", "C6_detach",
     "C4_attach", "C4_start", "C4_settings", "C4_apply", "C4_unbound", "C4_setconf",
     "C4_wg0_up", "C4_routes", "C4_chrony", "C4_stop", "C4_detach",
     "D_enter", "D_test_exit", "D_test_v4", "D_test_v6", "D_sleep"}

\* The callback has set teardown_requested on a session of the running
\* iteration whose handle is attached.
TeardownPending ==
    /\ pc \in SessionPcs
    /\ \/ s6.attached /\ s6.teardown_requested /\ pc # "C6_attach"
       \/ s4.attached /\ s4.teardown_requested /\ Occurs(trace, "wds4_attach")

\* run_up_ipv6 has returned.
SessionsOver == pc = "B_dms_shutdown"

HostServicePcs == {"C4_unbound", "C4_setconf", "C4_wg0_up", "C4_routes", "C4_chrony"}

\* C37 as claimed: with teardown_requested already true on the v6 or the v4
\* session of the iteration, the main thread makes none of the calls that
\* start unbound, set up the tunnel or start chrony.
C37_NoHostServiceOnceRequested ==
    [][(TeardownPending /\ pc \in HostServicePcs) => trace' = trace]_vars

\* C37 as amended: the bring-up does not look at the flags, but a monitor
\* that is entered with teardown_requested already true on a session never
\* sleeps: in that iteration the main thread does not get to sleep(1).
C37_ObservedAtMonitorEntry ==
    \A n \in 1..(MaxIter + 1) :
        []((pc = "D_enter" /\ TeardownPending /\ iter = n) =>
              [](iter = n => pc # "D_sleep"))

\* The monitor is about to be entered, all host services started, with the
\* v4 flag set during the bring-up.
C37_Witness ==
    /\ pc = "D_enter"
    /\ s4.attached
    /\ s4.teardown_requested
    /\ Occurs(trace, "start_chrony")

\* The bring-up calls of run_up_ipv4 after the start of the v4 session.
V4BringUpPcs ==
    {"C4_settings", "C4_apply", "C4_unbound", "C4_setconf", "C4_wg0_up", "C4_routes",
     "C4_chrony"}

\* run_up_ipv4 has just returned status4.
RunUpIpv4Returned == trace # <<>> /\ trace[Len(trace)] = "wds4_detach"

\* C38: run_up_ipv4 returns a nonzero status whenever a bring-up step after
\* the v4 session start has failed, and zero only if the monitor was entered
\* and the stop and the detach that follow succeeded.
C38_RunUpIpv4Status ==
    RunUpIpv4Returned =>
        /\ (fails \cap V4BringUpPcs # {}) => status4 # 0
        /\ (status4 = 0) =>
              (Occurs(trace, "monitor") /\ fails \cap {"C4_stop", "C4_detach"} = {})

\* C39: mm_netlink_addr_flush returns zero only if every non-link-scope
\* address of the interface was collected and deleted: none is left, no
\* delete failed, and no more than MAX_NETLINK_ADDRS were enumerated.
C39_FlushZeroMeansFlushed ==
    (nlk.fn = "addr_flush" /\ nlk.at = "returned" /\ nlk.status = 0) =>
        /\ NonLinkAddrs = {}
        /\ nlk.failed = {}
        /\ nlk.addrs.count <= MAX_NETLINK_ADDRS

\* Every call of the iteration so far succeeded and no stop, detach or
\* other teardown call has been made: the calls are exactly the bring-up
\* order up to the entry of the monitor.
FullyUp ==
    /\ trace = InMonitor
    /\ fails = {}
    /\ dms.swi /\ dms.dms
    /\ mode = MM_DMS_OPERATION_MODE_ONLINE
    /\ s6.attached /\ s6.session_id # 0
    /\ s4.attached /\ s4.session_id # 0

\* C40: in every reachable state of the supervisor, the monitor has been
\* entered (chrony started) only if, within the same iteration, DMS is
\* attached with the modem ONLINE, both the v6 and the v4 session were
\* started and their runtime settings applied, unbound was started, and the
\* tunnel was configured, brought up and routed, none of these torn down yet.
C40_MonitorOnlyWhenFullyUp ==
    (pc \in MonitorPcs) => FullyUp

C40_Witness ==
    /\ pc = "D_sleep"
    /\ Occurs(trace, "monitor")
    /\ Occurs(trace, "wg0_routes")

====
